---------------------------- MODULE Spec2Model ----------------------------
(***************************************************************************)
(* Model of the ITriggr news pipeline.                                     *)
(*                                                                         *)
(*  - image path   : scripts/generate_images_qwen.py                       *)
(*                   (article_lock_or_skip, ensure_image_for_article, run) *)
(*  - ingest path  : scripts/fetch_news.py (save_raw) with                 *)
(*                   scripts/common.py (sha256, simhash)                   *)
(*  - generation   : scripts/cluster_and_generate_v7.py (safe_parse_json,  *)
(*                   load_recent_raw_groups, already_generated,            *)
(*                   make_payload_from_sources, run_once)                  *)
(*                   and scripts/cluster_and_generate.py, its first        *)
(*                   version (run_once, make_payload_from_sources)         *)
(*  - functions    : specifications that apply one function of the         *)
(*                   pipeline to enumerated arguments (call, ret)          *)
(*                                                                         *)
(* The document store is the only shared state.  Every store round trip of *)
(* a worker is one step, so that concurrent invocations interleave at the  *)
(* granularity of store calls; a write to logs_ingest, which nothing       *)
(* reads, belongs to the step of the store call that comes with it.        *)
(***************************************************************************)
EXTENDS Integers, Sequences, FiniteSets, TLC

(***************************************************************************)
(* Bounds of the model.                                                    *)
(***************************************************************************)
NumWorkers  == 2   \* invocations of run(), overlapping or one after the other
MaxAttempts == 2   \* attempts the transactional wrapper makes before giving up
NumIngesters == 2  \* invocations of fetch_news.py, overlapping or not
MaxBatch    == 2   \* items one invocation fetches from its feeds
NumGens     == 2   \* invocations of the generation scripts, overlapping or not
MaxTextLen  == 3   \* length, in lexemes, of the backend texts that are enumerated
MaxHashLen  == 3   \* length, in characters, of the texts that are fingerprinted
MaxItems    == 3   \* length of the item lists handed to make_payload_from_sources

Workers == 1..NumWorkers

Ingesters == 1..NumIngesters

Gens == 1..NumGens

\* the documents of generated_articles_v3 that q.get() returns to run(), newest
\* first (article ids)
Docs == <<2, 1>>

Articles == {Docs[i] : i \in 1..Len(Docs)}

\* a field or a document that is not there
None == <<>>

VARIABLES
  articles,     \* generated_articles_v3: article id -> image fields of the document
  audit,        \* generated_images: article id -> url of "{id}_hero" (None: no document)
  pc,           \* position of each worker in run()/ensure_image_for_article
  snapHero,     \* per worker: images_map.hero as seen by q.get() at the start of run()
  idx,          \* per worker: position in the list of documents of the run
  txRead,       \* per worker: the snapshot read inside the lock transaction
  attempts,     \* per worker: times _lock was run in the current call (0: no call)
  url,          \* per worker: the url returned by the last upload (None before it)
  created,      \* per worker: run()'s counter of images created
  outcome,      \* per worker: how the last ensure_image_for_article call ended
  lockRet,      \* per worker: how the last article_lock_or_skip call ended
  genCalls,     \* per article: calls made to the image backend
  lockLog,      \* per article: calls that returned acquired; whether one was refused
  everFailed    \* per article: image_status = failed was written at some time

VARIABLES
  raw,          \* raw_articles: the set of stored documents, each with its id
  rawClock,     \* the store's clock: created_at of the next write (SERVER_TIMESTAMP)
  ipc,          \* position of each ingest run in __main__/save_raw
  itotal,       \* per ingest run: len(all_items)
  ipos,         \* per ingest run: items of the batch handled so far
  icur,         \* per ingest run: the item `it` of the current iteration
  saved,        \* per ingest run: save_raw's counter of stored items
  skipped       \* per ingest run: save_raw's counter of suppressed duplicates

VARIABLES
  generated,    \* generated_articles_v3: the documents added by run_once, each with
                \* the number of its copies (the store gives every added document
                \* a fresh id, which nothing reads)
  logs,         \* logs_ingest: the kinds of the events run_once has logged
  clock,        \* time.time() of the period in which the generation runs start
  gpc,          \* position of each generation run in run_once
  useOpenai,    \* per generation run: USE_OPENAI after the module was imported
  client,       \* per generation run: the module has a backend client (not None)
  groups,       \* per generation run: the clusters of load_recent_raw_groups
  gidx,         \* per generation run: position in groups.items()
  gcreated,     \* per generation run: run_once's counter of stored articles
  gerr,         \* per generation run: the exception that ended it ("none": none)
  gateLog,      \* history: runs overlapped; an existence query failed
  ptext,        \* the text handed to safe_parse_json
  pres,         \* what safe_parse_json did with ptext
  generatedV1,  \* generated_articles, the collection of cluster_and_generate.py:
                \* its documents, each with the number of its copies
  gscript       \* per generation run: the script that was started ("none": none)

VARIABLES
  call,         \* a function of the pipeline and the arguments it is called with
  ret           \* what the call returned or raised

ingVars == <<raw, rawClock, ipc, itotal, ipos, icur, saved, skipped>>

genVars == <<generated, logs, clock, gpc, useOpenai, client, groups, gidx, gcreated,
             gerr, gateLog, ptext, pres, generatedV1, gscript>>

pureVars == <<call, ret>>

imgVars == <<articles, audit, pc, snapHero, idx, txRead, attempts, url, created,
             outcome, lockRet, genCalls, lockLog, everFailed>>

vars == <<imgVars, ingVars, genVars, pureVars>>

\* no function of the pipeline is being called on its own
NoCall == [fn |-> "none"]

NotCalled == [st |-> "not called", val |-> <<>>]

\* the call returned v
Returned(v) == [st |-> "returned", val |-> v]

\* the call raised the exception e
RaisedIn(e) == [st |-> "raised", val |-> e]

PureInit == call = NoCall /\ ret = NotCalled

(***************************************************************************)
(* The documents of generated_articles_v3, restricted to the fields the    *)
(* image path reads and writes.  ver is the store's update counter of the  *)
(* document; the transaction commit validates against it.                  *)
(***************************************************************************)
Statuses == {"absent", "pending", "done", "failed"}

\* the fields run_once gave the document when it added it; the image path
\* reads some of them for its prompt, and what they hold does not matter to it
ContentFields ==
  [cluster_key |-> "key", title |-> "title", summary |-> "summary",
   bullets |-> "bullets", facts |-> "facts", talks |-> "talks",
   evidence_urls |-> "urls", raw_refs |-> "refs"]

NewArticle ==
  [image_status |-> "absent", hero |-> None, image_error |-> FALSE,
   image_lock_at |-> None, ver |-> 0, content |-> ContentFields]

CurDoc(w) == Docs[idx[w]]

NoRead == [status |-> "absent", hero |-> FALSE, ver |-> 0]

\* snap.to_dict() as read inside the transaction
ReadDoc(a) ==
  [status |-> articles[a].image_status, hero |-> articles[a].hero # None,
   ver |-> articles[a].ver]

\* (mutant) a rule that does not look at pending
LockBlockedDoneOnly(data) == data.hero \/ data.status = "done"

\* (mutant) a rule that also treats failed as taken
LockBlockedFailedToo(data) == data.hero \/ data.status \in {"pending", "done", "failed"}

\* _lock's decision: skip when an image exists or someone works / has worked on it
LockBlocked(data) == data.hero \/ data.status \in {"pending", "done"}

\* tx.update(ref, {image_status: pending, image_lock_at: SERVER_TIMESTAMP})
LockWrite(doc) ==
  [doc EXCEPT !.image_status = "pending", !.image_lock_at = <<doc.ver + 1>>,
              !.ver = doc.ver + 1]

\* (mutant) a commit that does not validate its read: read and write as two
\* separate store calls
CommitAlways(w, a) == TRUE

\* the commit of a transaction with a write succeeds only if the document
\* was not written since the transaction read it
CommitValid(w, a) == articles[a].ver = txRead[w].ver

\* (mutant) the hero is written but the status is left as it is
DoneWriteNoStatus(doc, u) == [doc EXCEPT !.hero = u, !.ver = doc.ver + 1]

\* (mutant) the set without merge=True: the document is replaced by the three
\* fields of the call
DoneWriteNoMerge(doc, u) ==
  [image_status |-> "done", hero |-> u, image_error |-> FALSE,
   image_lock_at |-> None, ver |-> doc.ver + 1, content |-> None]

\* doc_ref.set({images_map.hero, image_status: done, image_updated_at}, merge=True)
DoneWrite(doc, u) ==
  [doc EXCEPT !.image_status = "done", !.hero = u, !.ver = doc.ver + 1]

\* doc_ref.set({image_status: failed, image_error, image_failed_at}, merge=True)
FailedWrite(doc) ==
  [doc EXCEPT !.image_status = "failed", !.image_error = TRUE, !.ver = doc.ver + 1]

\* the download url of an upload: it carries a fresh uuid token, so no two
\* uploads share one; an invocation uploads at most once per document
NewUrl(w) == <<"url", w>>

LogInit == [acquired |-> 0, refused |-> FALSE]

ImgInit ==
  /\ articles = [a \in Articles |-> NewArticle]
  /\ audit = [a \in Articles |-> None]
  /\ pc = [w \in Workers |-> "idle"]
  /\ snapHero = [w \in Workers |-> [a \in Articles |-> FALSE]]
  /\ idx = [w \in Workers |-> 1]
  /\ txRead = [w \in Workers |-> NoRead]
  /\ attempts = [w \in Workers |-> 0]
  /\ url = [w \in Workers |-> None]
  /\ created = [w \in Workers |-> 0]
  /\ outcome = [w \in Workers |-> "none"]
  /\ lockRet = [w \in Workers |-> "none"]
  /\ genCalls = [a \in Articles |-> 0]
  /\ lockLog = [a \in Articles |-> LogInit]
  /\ everFailed = [a \in Articles |-> FALSE]

(***************************************************************************)
(* Text, hashes and the similarity fingerprint (scripts/common.py).        *)
(* A text is a sequence of characters; a character is named by a string.   *)
(***************************************************************************)
Alphabet ==
  <<"a", "c", "d", "e", "f", "t", "u", "A", "F", "7", " ", "TAB", "-",
    "HANGUL_GA", "CYR_DE", "CYR_DE_UPPER">>

CharCode(c) == CHOOSE k \in 1..Len(Alphabet) : Alphabet[k] = c

\* str.lower() on one character
LowerChar(c) ==
  CASE c = "A" -> "a"
    [] c = "F" -> "f"
    [] c = "CYR_DE_UPPER" -> "CYR_DE"
    [] OTHER -> c

Lower(text) == [k \in 1..Len(text) |-> LowerChar(text[k])]

\* (mutant) a character class that takes the tab as part of a token
TokenCharOrTab(c) ==
  c \in {"a", "c", "d", "e", "f", "t", "u", "A", "F", "7", "HANGUL_GA", "TAB"}

\* the character class [A-Za-z0-9가-힣] of simhash's regular expression
TokenChar(c) ==
  c \in {"a", "c", "d", "e", "f", "t", "u", "A", "F", "7", "HANGUL_GA"}

\* re.findall(r"[A-Za-z0-9가-힣]+", text): the maximal runs, left to right
RECURSIVE FindTokens(_, _, _)
FindTokens(text, k, run) ==
  IF k > Len(text)
    THEN IF run = <<>> THEN <<>> ELSE <<run>>
    ELSE IF TokenChar(text[k])
           THEN FindTokens(text, k + 1, Append(run, text[k]))
           ELSE (IF run = <<>> THEN <<>> ELSE <<run>>) \o FindTokens(text, k + 1, <<>>)

Tokens(text) == FindTokens(text, 1, <<>>)

RECURSIVE TokSum(_, _)
TokSum(tok, k) ==
  IF k > Len(tok) THEN 0 ELSE (CharCode(tok[k]) * (2 * k + 1) + TokSum(tok, k + 1)) % 1009

\* bit i of int(hashlib.md5(tok.encode()).hexdigest(), 16): md5 is taken as a
\* fixed function of the token's characters that scatters the bits
Md5Bit(tok, i) ==
  LET s == TokSum(tok, 1) + 17
  IN  (((s * s * (i + 1) + s * i * i + 7 * i) % 8191) \div 16) % 2

\* the width of the fingerprint, simhash's parameter bits
SimhashBits == 64

RECURSIVE VoteByPlace(_, _, _)
\* (mutant) a token's vote weighs as much as its place in the text
VoteByPlace(toks, i, k) ==
  IF k > Len(toks) THEN 0
  ELSE k * (IF Md5Bit(toks[k], i) = 1 THEN 1 ELSE -1) + VoteByPlace(toks, i, k + 1)

RECURSIVE Vote(_, _, _)
\* v[i] after the loop over toks[k..]: +1 for a set bit, -1 for a clear one
Vote(toks, i, k) ==
  IF k > Len(toks) THEN 0
  ELSE (IF Md5Bit(toks[k], i) = 1 THEN 1 ELSE -1) + Vote(toks, i, k + 1)

\* (mutant) a tie leaves the bit clear
OutBitStrict(toks, i) == IF Vote(toks, i, 1) > 0 THEN 1 ELSE 0

\* bit i of out: set when v[i] >= 0
OutBit(toks, i) == IF Vote(toks, i, 1) >= 0 THEN 1 ELSE 0

HexDigits ==
  <<"0", "1", "2", "3", "4", "5", "6", "7", "8", "9", "a", "b", "c", "d", "e", "f">>

\* f"{out:0{bits//4}x}": digit j (from the left) holds the bits
\* bits-4j+3 .. bits-4j of out, the most significant first
HexOf(toks, bits) ==
  [j \in 1..(bits \div 4) |->
     HexDigits[1 + 8 * OutBit(toks, bits - 4 * j + 3) + 4 * OutBit(toks, bits - 4 * j + 2)
                 + 2 * OutBit(toks, bits - 4 * j + 1) + OutBit(toks, bits - 4 * j)]]

simhash(text) ==
  LET toks == Tokens(Lower(text))
  IN  IF toks = <<>> THEN [j \in 1..(SimhashBits \div 4) |-> "0"]
      ELSE HexOf(toks, SimhashBits)

\* the characters \s matches
SpaceChar(c) == c \in {" ", "TAB"}

RECURSIVE CollapseSpace(_, _)
\* re.sub(r"\s+", " ", t) from position k on: every maximal run of whitespace
\* becomes one space
CollapseSpace(t, k) ==
  IF k > Len(t) THEN <<>>
  ELSE IF SpaceChar(t[k])
         THEN (IF k > 1 /\ SpaceChar(t[k - 1]) THEN <<>> ELSE <<" ">>) \o CollapseSpace(t, k + 1)
         ELSE <<t[k]>> \o CollapseSpace(t, k + 1)

\* str.strip() of a text whose whitespace runs are single spaces
StripSpaces(t) ==
  LET from == IF t # <<>> /\ t[1] = " " THEN 2 ELSE 1
      to == IF t # <<>> /\ t[Len(t)] = " " THEN Len(t) - 1 ELSE Len(t)
  IN  IF from > to THEN <<>> ELSE SubSeq(t, from, to)

\* normalize(t)
normalize(t) == StripSpaces(CollapseSpace(t, 1))

\* hashlib.sha256(text.encode("utf-8")).hexdigest(): a digest that is a
\* function of the text and differs for different texts
sha256(text) == <<"sha256">> \o text

(***************************************************************************)
(* Ingestion (scripts/fetch_news.py).                                      *)
(***************************************************************************)
\* the items the feeds can yield: a url, a normalized title, a content hint
RawFeed ==
  { [url |-> <<"u", "7">>, title |-> <<"F", "e", "d", " ", "c", "u", "t">>,
     content_hint |-> <<>>, published_at |-> 100000],
    [url |-> <<"u", "7">>, title |-> <<"f", "e", "d", " ", "c", "u", "t", "-", "7">>,
     content_hint |-> <<"a">>, published_at |-> 100000],
    [url |-> <<"d", "7">>, title |-> <<"F", "e", "d", " ", "c", "u", "t">>,
     content_hint |-> <<>>, published_at |-> 90000] }

\* an item of a source that load_recent_raw_groups leaves out
NytItem ==
  [url |-> <<"https://", "www", ".", "nytimes.com", "/", "7">>,
   title |-> <<"F", "e", "d", " ", "c", "u", "t">>, content_hint |-> <<>>,
   published_at |-> 100000]

\* an item behind the short links of the same source, and an item of another
\* source that was published long ago
ShortLinkItem ==
  [url |-> <<"https://", "nyti.ms", "/", "7">>,
   title |-> <<"c", "u", "t">>, content_hint |-> <<>>, published_at |-> 100000]

OldItem ==
  [url |-> <<"https://", "example.com", "/", "a">>,
   title |-> <<"a", "c", "e">>, content_hint |-> <<>>, published_at |-> 80000]

\* every item a feed has ever yielded
Corpus == RawFeed \cup {NytItem, ShortLinkItem, OldItem}

NoItem == [url |-> <<>>, title |-> <<>>, content_hint |-> <<>>, published_at |-> 0]

\* (mutant) the document id is taken from the title instead of the url
UrlHashOfTitle(it) == sha256(it.title)

\* url_hash = sha256(it["url"]); doc_ref = col.document(url_hash)
UrlHash(it) == sha256(it.url)

\* doc_ref.get().exists
Exists(id) == \E d \in raw : d.id = id

\* s = simhash(f"{it['title']} {it.get('content_hint','')}"), for each item of
\* the feed
ItemSimhash == [it \in Corpus |-> simhash(it.title \o <<" ">> \o it.content_hint)]

\* the document save_raw writes for an item at store time t
RawDocAt(it, t) ==
  [id |-> UrlHash(it), url |-> it.url, title |-> it.title,
   content_hint |-> it.content_hint, published_at |-> it.published_at,
   url_hash |-> UrlHash(it), simhash |-> ItemSimhash[it], created_at |-> t]

RawDoc(it) == RawDocAt(it, rawClock)

\* (mutant) the write adds a document and leaves the one with that id in place
SetRawKeepsBoth(doc) == raw \cup {doc}

\* doc_ref.set(it): the document with that id is created or replaced
SetRaw(doc) == {d \in raw : d.id # doc.id} \cup {doc}

IngInit ==
  /\ raw = {}
  /\ rawClock = 1
  /\ ipc = [i \in Ingesters |-> "idle"]
  /\ itotal = [i \in Ingesters |-> 0]
  /\ ipos = [i \in Ingesters |-> 0]
  /\ icur = [i \in Ingesters |-> NoItem]
  /\ saved = [i \in Ingesters |-> 0]
  /\ skipped = [i \in Ingesters |-> 0]

\* __main__: the feeds are fetched; with no item the run ends at once
IngStart(i) ==
  /\ ipc[i] = "idle"
  /\ \E n \in 0..MaxBatch :
       /\ itotal' = [itotal EXCEPT ![i] = n]
       /\ ipc' = [ipc EXCEPT ![i] = IF n = 0 THEN "exited" ELSE "next"]
  /\ UNCHANGED <<raw, rawClock, ipos, icur, saved, skipped>>
  /\ UNCHANGED <<imgVars, genVars, pureVars>>

\* save_raw, one iteration: the document exists, the item is counted as skipped
IngSkip(i) ==
  /\ ipc[i] = "next"
  /\ ipos[i] < itotal[i]
  /\ \E it \in RawFeed :
       /\ Exists(UrlHash(it))
       /\ icur' = [icur EXCEPT ![i] = it]
  /\ skipped' = [skipped EXCEPT ![i] = skipped[i] + 1]
  /\ ipos' = [ipos EXCEPT ![i] = ipos[i] + 1]
  /\ UNCHANGED <<raw, rawClock, ipc, itotal, saved>>
  /\ UNCHANGED <<imgVars, genVars, pureVars>>

\* save_raw, one iteration: the document does not exist, the item will be written
IngMiss(i) ==
  /\ ipc[i] = "next"
  /\ ipos[i] < itotal[i]
  /\ \E it \in RawFeed :
       /\ ~Exists(UrlHash(it))
       /\ icur' = [icur EXCEPT ![i] = it]
  /\ ipc' = [ipc EXCEPT ![i] = "write"]
  /\ UNCHANGED <<raw, rawClock, itotal, ipos, saved, skipped>>
  /\ UNCHANGED <<imgVars, genVars, pureVars>>

\* save_raw: doc_ref.set(it); saved += 1
IngWrite(i) ==
  /\ ipc[i] = "write"
  /\ raw' = SetRaw(RawDoc(icur[i]))
  /\ rawClock' = rawClock + 1
  /\ saved' = [saved EXCEPT ![i] = saved[i] + 1]
  /\ ipos' = [ipos EXCEPT ![i] = ipos[i] + 1]
  /\ ipc' = [ipc EXCEPT ![i] = "next"]
  /\ UNCHANGED <<itotal, icur, skipped>>
  /\ UNCHANGED <<imgVars, genVars, pureVars>>

\* save_raw returns (saved, skipped); __main__ logs ingest_done and prints them
IngDone(i) ==
  /\ ipc[i] = "next"
  /\ ipos[i] = itotal[i]
  /\ ipc' = [ipc EXCEPT ![i] = "exited"]
  /\ icur' = [icur EXCEPT ![i] = NoItem]
  /\ UNCHANGED <<raw, rawClock, itotal, ipos, saved, skipped>>
  /\ UNCHANGED <<imgVars, genVars, pureVars>>

\* a store call of save_raw raises: nothing catches it, the run dies with it
IngRaise(i) ==
  /\ \/ ipc[i] = "next" /\ ipos[i] < itotal[i]
     \/ ipc[i] = "write"
  /\ ipc' = [ipc EXCEPT ![i] = "crashed"]
  /\ icur' = [icur EXCEPT ![i] = NoItem]
  /\ UNCHANGED <<raw, rawClock, itotal, ipos, saved, skipped>>
  /\ UNCHANGED <<imgVars, genVars, pureVars>>

IngStep(i) ==
  \/ IngStart(i)
  \/ IngSkip(i)
  \/ IngMiss(i)
  \/ IngWrite(i)
  \/ IngDone(i)
  \/ IngRaise(i)

(***************************************************************************)
(* The text of a backend response and its JSON reading                     *)
(* (scripts/cluster_and_generate_v7.py, safe_parse_json).                  *)
(* A text is a sequence of lexemes: the fence (FENCE), the tag json, a line*)
(* break, the JSON punctuation, two scalars, a word that is not JSON, and  *)
(* whole members ("key": value) of the object the prompt asks for.         *)
(***************************************************************************)
ReaderTypes == {"general", "entrepreneur", "politician", "investor"}

\* JSON values as json.loads returns them
JNull == [type |-> "null"]

JNum == [type |-> "number"]

JStr(v) == [type |-> "string", v |-> v]

JList(elems) == [type |-> "list", elems |-> elems]

JDict(items) == [type |-> "dict", items |-> items]

\* dict.get(key, default)
Get(d, key, default) == IF key \in DOMAIN d.items THEN d.items[key] ELSE default

MemberLexemes ==
  {"title:str", "title:num", "summary:str", "bullets:3", "facts:1", "talks:4",
   "talks:general"}

\* the key and the value a member lexeme stands for
Member(lex) ==
  CASE lex = "title:str" -> [key |-> "title", val |-> JStr(<<"llm title">>)]
    [] lex = "title:num" -> [key |-> "title", val |-> JNum]
    [] lex = "summary:str" -> [key |-> "summary", val |-> JStr(<<"llm summary">>)]
    [] lex = "bullets:3" ->
         [key |-> "bullets", val |-> JList([k \in 1..3 |-> JStr(<<"llm bullet">>)])]
    [] lex = "facts:1" ->
         [key |-> "facts",
          val |-> JList(<<JDict([text |-> JStr(<<"llm fact">>),
                                 evidence_url |-> JStr(<<"u", "7">>)])>>)]
    [] lex = "talks:4" ->
         [key |-> "talks", val |-> JDict([r \in ReaderTypes |-> JStr(<<"llm talk">>)])]
    [] lex = "talks:general" ->
         [key |-> "talks", val |-> JDict([r \in {"general"} |-> JStr(<<"llm talk">>)])]

ParseFail == [ok |-> FALSE, val |-> JNull, next |-> 0]

ParseOk(v, n) == [ok |-> TRUE, val |-> v, next |-> n]

RECURSIVE ParseValue(_, _)
RECURSIVE ParseElems(_, _, _)
RECURSIVE ParseMembers(_, _, _)

\* the members of an object from position k on, up to the closing brace; a key
\* that comes twice keeps its last value
ParseMembers(t, k, acc) ==
  IF k + 1 > Len(t) \/ t[k] \notin MemberLexemes THEN ParseFail
  ELSE LET acc2 == (Member(t[k]).key :> Member(t[k]).val) @@ acc
       IN  CASE t[k + 1] = "}" -> ParseOk(JDict(acc2), k + 2)
             [] t[k + 1] = "," -> ParseMembers(t, k + 2, acc2)
             [] OTHER -> ParseFail

\* the elements of an array from position k on, up to the closing bracket
ParseElems(t, k, acc) ==
  LET r == ParseValue(t, k)
  IN  IF ~r.ok \/ r.next > Len(t) THEN ParseFail
      ELSE CASE t[r.next] = "]" -> ParseOk(JList(Append(acc, r.val)), r.next + 1)
             [] t[r.next] = "," -> ParseElems(t, r.next + 1, Append(acc, r.val))
             [] OTHER -> ParseFail

\* one JSON value starting at position k
ParseValue(t, k) ==
  IF k > Len(t) THEN ParseFail
  ELSE CASE t[k] = "1" -> ParseOk(JNum, k + 1)
         [] t[k] = "null" -> ParseOk(JNull, k + 1)
         [] t[k] = "[" ->
              IF k + 1 <= Len(t) /\ t[k + 1] = "]"
                THEN ParseOk(JList(<<>>), k + 2)
                ELSE ParseElems(t, k + 1, <<>>)
         [] t[k] = "{" ->
              IF k + 1 <= Len(t) /\ t[k + 1] = "}"
                THEN ParseOk(JDict(<<>>), k + 2)
                ELSE ParseMembers(t, k + 1, <<>>)
         [] OTHER -> ParseFail

IsSpace(x) == x = "NL"

\* json.loads(text): white space between the lexemes is skipped, one value is
\* read and nothing may follow it
json_loads(text) ==
  LET t == SelectSeq(text, LAMBDA x : ~IsSpace(x))
      r == ParseValue(t, 1)
  IN  IF r.ok /\ r.next = Len(t) + 1
        THEN [ok |-> TRUE, val |-> r.val]
        ELSE [ok |-> FALSE, val |-> JNull]

RECURSIVE WsEnd(_, _)
\* the first position from k on that holds no white space
WsEnd(t, k) == IF k <= Len(t) /\ IsSpace(t[k]) THEN WsEnd(t, k + 1) ELSE k

RECURSIVE WsStart(_, _)
\* the last position up to k that holds no white space
WsStart(t, k) == IF k >= 1 /\ IsSpace(t[k]) THEN WsStart(t, k - 1) ELSE k

\* content.strip()
Strip(t) == SubSeq(t, WsEnd(t, 1), WsStart(t, Len(t)))

\* ^ and $ under re.M: at the ends of the text and next to a line break
LineStart(t, k) == k = 1 \/ t[k - 1] = "NL"

LineEnd(t, j) == j = Len(t) \/ t[j + 1] = "NL"

IsTag(x) == x \in {"json", "JSON"}

RECURSIVE SubFences(_, _)
\* re.sub(r"^```(?:json)?\s*|\s*```$", "", t, flags=re.I | re.M), from
\* position k on: an opening fence at the start of a line goes with its tag
\* and the white space after it, a fence at the end of a line goes with the
\* white space before it
SubFences(t, k) ==
  IF k > Len(t) THEN <<>>
  ELSE IF LineStart(t, k) /\ t[k] = "FENCE"
    THEN LET a == IF k + 1 <= Len(t) /\ IsTag(t[k + 1]) THEN k + 2 ELSE k + 1
         IN  SubFences(t, WsEnd(t, a))
    ELSE LET j == WsEnd(t, k)
         IN  IF j <= Len(t) /\ t[j] = "FENCE" /\ LineEnd(t, j)
               THEN SubFences(t, j + 1)
               ELSE <<t[k]>> \o SubFences(t, k + 1)

StripFences(content) == SubFences(Strip(content), 1)

\* re.search(r"\{.*\}", content, flags=re.S): from the first opening brace to
\* the last closing brace after it; the empty text when there is no such span
BraceSpan(content) ==
  LET opens == {k \in 1..Len(content) : content[k] = "{"}
  IN  IF opens = {} THEN <<>>
      ELSE LET i == CHOOSE k \in opens : \A m \in opens : k <= m
               closes == {k \in (i + 1)..Len(content) : content[k] = "}"}
           IN  IF closes = {} THEN <<>>
               ELSE SubSeq(content, i, CHOOSE k \in closes : \A m \in closes : m <= k)

Parsed(v) == [ok |-> TRUE, val |-> v, err |-> "none"]

Raised(e) == [ok |-> FALSE, val |-> JNull, err |-> e]

\* (mutant) the brace span is tried before the fences are stripped
safe_parse_json_span_first(content) ==
  LET r1 == json_loads(content)
      r2 == json_loads(StripFences(content))
      m == BraceSpan(content)
      r3 == json_loads(m)
  IN  IF r1.ok THEN Parsed(r1.val)
      ELSE IF m # <<>> /\ r3.ok THEN Parsed(r3.val)
      ELSE IF r2.ok THEN Parsed(r2.val)
      ELSE IF m # <<>> THEN Raised("JSONDecodeError")
      ELSE Raised("ValueError")

\* safe_parse_json(content): the parsed value, or the exception it raises
safe_parse_json(content) ==
  LET r1 == json_loads(content)
      r2 == json_loads(StripFences(content))
      m == BraceSpan(content)
  IN  IF r1.ok THEN Parsed(r1.val)
      ELSE IF r2.ok THEN Parsed(r2.val)
      ELSE IF m # <<>>
        THEN LET r3 == json_loads(m)
             IN  IF r3.ok THEN Parsed(r3.val) ELSE Raised("JSONDecodeError")
        ELSE Raised("ValueError")

\* what the backend can answer: the object the prompt asks for, bare, fenced
\* and inside prose; an object whose talks lacks reader types; an object of
\* another shape; an array, fenced, around an object; null; prose
FullObject ==
  <<"{", "title:str", ",", "summary:str", ",", "bullets:3", ",", "facts:1", ",",
    "talks:4", "}">>

Responses ==
  { FullObject,
    <<"FENCE", "json", "NL">> \o FullObject \o <<"NL", "FENCE">>,
    <<"word", "NL">> \o FullObject \o <<"word">>,
    <<"{", "title:str", ",", "summary:str", ",", "bullets:3", ",", "facts:1", ",",
      "talks:general", "}">>,
    <<"{", "title:num", "}">>,
    <<"FENCE", "NL", "[", "{", "title:str", "}", "]", "NL", "FENCE">>,
    <<"null">>,
    <<"word">> }

\* safe_parse_json on each of these answers
ParseOf == [content \in Responses |-> safe_parse_json(content)]

\* the values safe_parse_json returns for them
ParsedAnswers == {ParseOf[content].val : content \in {c \in Responses : ParseOf[c].ok}}

\* client.chat.completions.create can raise whatever the prompt: there is no
\* client, the network fails, the call times out
BackendCanRaise == TRUE

\* the lexemes of the texts that are enumerated up to MaxTextLen
Lexemes ==
  {"FENCE", "json", "NL", "{", "}", "[", "]", ",", "1", "null", "word", "title:str"}

Texts == UNION {[1..n -> Lexemes] : n \in 0..MaxTextLen} \cup Responses

NotParsed == [ok |-> FALSE, val |-> JNull, err |-> "not called"]

\* safe_parse_json is called on the text
Normalize ==
  /\ pres = NotParsed
  /\ pres' = safe_parse_json(ptext)
  /\ UNCHANGED ptext
  /\ UNCHANGED <<generated, logs, gpc, useOpenai, client, groups, gidx, gcreated, gerr,
                 gateLog, clock>>
  /\ UNCHANGED <<imgVars, ingVars, pureVars, generatedV1, gscript>>

(***************************************************************************)
(* Clustering and generation (scripts/cluster_and_generate_v7.py).         *)
(***************************************************************************)
\* sim_prefix's default prefix_bits, and load_recent_raw_groups' window_sec
PrefixBits == 16

WindowSec == 21600

\* simhash_hex[: prefix_bits // 4]
sim_prefix(simhash_hex, prefix_bits) ==
  SubSeq(simhash_hex, 1, prefix_bits \div 4)

ExcludeDomains == {"nytimes.com", "nyti.ms"}

\* urlparse(url).netloc.lower(): the labels between the scheme and the path; a
\* url is a sequence of pieces (scheme, labels, dots, slash, path), and one
\* without a scheme has no netloc
Netloc(u) ==
  IF Len(u) = 0 \/ u[1] # "https://" THEN <<>>
  ELSE LET slashes == {k \in 2..Len(u) : u[k] = "/"}
           end == IF slashes = {} THEN Len(u)
                  ELSE (CHOOSE k \in slashes : \A m \in slashes : k <= m) - 1
       IN  SubSeq(u, 2, end)

\* _is_excluded(url): host == d or host.endswith("." + d)
IsExcluded(u) ==
  LET host == Netloc(u)
  IN  /\ host # <<>>
      /\ \E d \in ExcludeDomains :
           \/ host = <<d>>
           \/ Len(host) >= 2 /\ host[Len(host)] = d /\ host[Len(host) - 1] = "."

\* (mutant) the query leaves out the documents published exactly at since
RecentStrict(docs, now) == {d \in docs : d.published_at > now - WindowSec}

\* the documents of raw_articles with published_at >= since
Recent(docs, now) == {d \in docs : d.published_at >= now - WindowSec}

\* q.stream(): the documents of the query in the order of published_at
StreamOrders(docs) ==
  {s \in [1..Cardinality(docs) -> docs] :
     /\ \A i, j \in DOMAIN s : i # j => s[i] # s[j]
     /\ \A i, j \in DOMAIN s : i < j => s[i].published_at <= s[j].published_at}

ClusterKeyOf(d) == sim_prefix(d.simhash, PrefixBits)

RECURSIVE KeysInOrder(_, _, _)
\* the keys of the defaultdict in the order in which they were first used
KeysInOrder(sel, k, seen) ==
  IF k > Len(sel) THEN seen
  ELSE IF \E i \in DOMAIN seen : seen[i] = ClusterKeyOf(sel[k])
         THEN KeysInOrder(sel, k + 1, seen)
         ELSE KeysInOrder(sel, k + 1, Append(seen, ClusterKeyOf(sel[k])))

\* (d.id, d.to_dict()) with the fields run_once reads
ItemOf(d) == [id |-> d.id, url |-> d.url, title |-> d.title, published_at |-> d.published_at]

\* load_recent_raw_groups on the streamed documents: groups.items() as a list
\* of (cluster key, members in stream order)
load_recent_raw_groups(stream) ==
  LET sel == SelectSeq(stream, LAMBDA d : ~IsExcluded(d.url))
      keys == KeysInOrder(sel, 1, <<>>)
  IN  [i \in DOMAIN keys |->
         [key |-> keys[i],
          items |-> LET members == SelectSeq(sel, LAMBDA d : ClusterKeyOf(d) = keys[i])
                    IN  [k \in DOMAIN members |-> ItemOf(members[k])]]]

\* the query cluster_key == key finds a document
HasArticle(key) == \E d \in DOMAIN generated : d.cluster_key = key

\* already_generated(db, cluster_key): len(snap) > 0, and False when the query
\* raises
already_generated(key, raises) == IF raises THEN FALSE ELSE HasArticle(key)

\* make_payload_from_sources(items)
make_payload_from_sources(items) ==
  LET n == Len(items)
      first_title == IF n = 0 THEN <<>> ELSE items[1].title
      first_url == IF n = 0 THEN <<>> ELSE items[1].url
  IN  JDict([title |->
               JStr(<<"[Auto]", ToString(n), IF n > 1 THEN "sources" ELSE "source",
                      "on same event">>),
             summary |->
               JStr(IF n > 1 THEN <<"Multiple outlets reported a similar event.">>
                    ELSE <<"A single source reported this event.">>),
             bullets |-> JList([k \in 1..3 |-> JStr(<<"Key point", ToString(k)>>)]),
             facts |-> JList(<<JDict([text |-> JStr(first_title),
                                      evidence_url |-> JStr(first_url)])>>),
             talks |-> JDict([r \in ReaderTypes |-> JStr(<<"template talk", r>>)])])

\* one entry of the actions of cluster_and_generate.py's template
ActionEntry(what) ==
  JList(<<JDict([action |-> JStr(<<what>>), assumptions |-> JStr(<<"assumption">>),
                 risk |-> JStr(<<"risk">>), alternative |-> JStr(<<"alternative">>)])>>)

\* make_payload_from_sources(items) of cluster_and_generate.py: items[0] is
\* read whatever the length of the list, and the record has actions, no talks
make_payload_from_sources_v1(items) ==
  IF Len(items) = 0 THEN RaisedIn("IndexError")
  ELSE Returned(
               JDict([title |-> JStr(<<"[Auto]", ToString(Len(items)), "sources",
                                        "on same event">>),
                       summary |-> JStr(<<"Multiple outlets reported a similar event.">>),
                       bullets |-> JList([k \in 1..3 |-> JStr(<<"Key point", ToString(k)>>)]),
                       facts |-> JList(<<JDict([text |-> JStr(items[1].title),
                                                evidence_url |-> JStr(items[1].url)])>>),
                       actions |-> JDict([stock |-> ActionEntry("Watch related tickers"),
                                          futures |-> ActionEntry("Small sector ETF probe"),
                                          biz |-> ActionEntry("Monitor supplier/customer notes")])]))

\* the two scripts of the repository that cluster and generate
Scripts == {"cluster_and_generate_v7", "cluster_and_generate"}

\* make_payload_from_sources of a gscript, called on a list of items
MakePayload(script, items) ==
  IF script = "cluster_and_generate_v7"
    THEN Returned(make_payload_from_sources(items))
    ELSE make_payload_from_sources_v1(items)

EmptyTalks == JDict([r \in ReaderTypes |-> JStr(<<>>)])

\* the document run_once adds for a cluster (token_usage, latency_ms,
\* published_window and created_at are left out)
ArticleDoc(key, items, p, model) ==
  [cluster_key |-> key,
   title |-> Get(p, "title", JStr(<<>>)),
   summary |-> Get(p, "summary", JStr(<<>>)),
   bullets |-> Get(p, "bullets", JList(<<>>)),
   facts |-> Get(p, "facts", JList(<<>>)),
   talks |-> Get(p, "talks", EmptyTalks),
   evidence_urls |-> [k \in DOMAIN items |-> items[k].url],
   raw_refs |-> [k \in DOMAIN items |-> items[k].id],
   model |-> model,
   schema_version |-> "talks_v1"]

\* db.collection("generated_articles_v3").add(doc): one more copy of doc
AddDoc(coll, doc) ==
  IF doc \in DOMAIN coll THEN [coll EXCEPT ![doc] = @ + 1] ELSE (doc :> 1) @@ coll

\* the times at which the runs can read the clock
Times == {111600, 115000}

CurGroup(g) == groups[g][gidx[g]]

GenActive == {"loop", "call"}

GenInit ==
  /\ generated = <<>>
  /\ logs = {}
  /\ gpc = [g \in Gens |-> "idle"]
  /\ useOpenai = [g \in Gens |-> FALSE]
  /\ client = [g \in Gens |-> FALSE]
  /\ generatedV1 = <<>>
  /\ gscript = [g \in Gens |-> "none"]
  /\ groups = [g \in Gens |-> <<>>]
  /\ gidx = [g \in Gens |-> 1]
  /\ gerr = [g \in Gens |-> "none"]
  /\ gcreated = [g \in Gens |-> 0]
  /\ gateLog = [overlap |-> FALSE, fault |-> FALSE]

\* lines 17-31, run when the module is imported: USE_OPENAI is the environment's
\* flag; with a key and the flag the client is created, and when creating it
\* raises the flag is switched off; without a key the flag stays as it is and
\* client stays None
ModuleInit(has_key, flag, init_ok) ==
  [USE_OPENAI |-> flag /\ (has_key => init_ok),
   client |-> has_key /\ flag /\ init_ok]

Configs ==
  {ModuleInit(has_key, flag, init_ok) : has_key \in BOOLEAN, flag \in BOOLEAN,
                                        init_ok \in BOOLEAN}

\* the process of run g is over, normally ("exited") or by the exception e
\* that left run_once ("crashed"): its locals are gone
GenEnds(g, how, e) ==
  /\ gpc' = [gpc EXCEPT ![g] = how]
  /\ gerr' = [gerr EXCEPT ![g] = e]
  /\ useOpenai' = [useOpenai EXCEPT ![g] = FALSE]
  /\ client' = [client EXCEPT ![g] = FALSE]
  /\ groups' = [groups EXCEPT ![g] = <<>>]
  /\ gidx' = [gidx EXCEPT ![g] = 1]
  /\ gcreated' = [gcreated EXCEPT ![g] = 0]

\* the module is imported (USE_OPENAI is fixed) and run_once starts:
\* db = init_db(); groups = load_recent_raw_groups(db); created = 0
GenStart(g) ==
  /\ gpc[g] = "idle"
  /\ \E loaded \in BOOLEAN :
       IF loaded
         THEN /\ \E cfg \in Configs :
                   \E stream \in StreamOrders(Recent(raw, clock)) :
                     /\ useOpenai' = [useOpenai EXCEPT ![g] = cfg.USE_OPENAI]
                     /\ client' = [client EXCEPT ![g] = cfg.client]
                     /\ groups' = [groups EXCEPT ![g] = load_recent_raw_groups(stream)]
              /\ gpc' = [gpc EXCEPT ![g] = "loop"]
              /\ gidx' = [gidx EXCEPT ![g] = 1]
              /\ gcreated' = [gcreated EXCEPT ![g] = 0]
              /\ UNCHANGED gerr
         ELSE GenEnds(g, "crashed", "StoreError")
  /\ gscript' = [gscript EXCEPT ![g] = "cluster_and_generate_v7"]
  /\ gateLog' = [gateLog EXCEPT !.overlap = @ \/ \E h \in Gens \ {g} : gpc[h] \in GenActive]
  /\ UNCHANGED <<generated, logs, ptext, pres, clock>>
  /\ UNCHANGED <<imgVars, ingVars, pureVars, generatedV1>>

\* already_generated answers True: the cluster is skipped
GenGateSkip(g) ==
  /\ gpc[g] = "loop"
  /\ gscript[g] = "cluster_and_generate_v7"
  /\ gidx[g] <= Len(groups[g])
  /\ \E raises \in BOOLEAN : already_generated(CurGroup(g).key, raises)
  /\ gidx' = [gidx EXCEPT ![g] = gidx[g] + 1]
  /\ UNCHANGED <<generated, logs, gpc, useOpenai, client, groups, gcreated, gerr,
                 gateLog,
                 ptext, pres, clock>>
  /\ UNCHANGED <<imgVars, ingVars, pureVars, generatedV1, gscript>>

\* already_generated answers False, because the query finds nothing or because
\* it raises; the sources are fetched and the locals of the iteration are set
GenGatePass(g) ==
  /\ gpc[g] = "loop"
  /\ gscript[g] = "cluster_and_generate_v7"
  /\ gidx[g] <= Len(groups[g])
  /\ \E raises \in BOOLEAN :
       /\ ~already_generated(CurGroup(g).key, raises)
       /\ gateLog' = [gateLog EXCEPT !.fault = @ \/ (raises /\ HasArticle(CurGroup(g).key))]
  /\ gpc' = [gpc EXCEPT ![g] = "call"]
  /\ UNCHANGED <<generated, logs, useOpenai, client, groups, gidx, gcreated, gerr,
                 ptext, pres,
                 clock>>
  /\ UNCHANGED <<imgVars, ingVars, pureVars, generatedV1, gscript>>

\* (mutant) the article is created only when the key has none yet
StoreArticleIfAbsent(g, p, model) ==
  /\ p.type = "dict"
  /\ generated' =
       IF HasArticle(CurGroup(g).key) THEN generated
       ELSE AddDoc(generated, ArticleDoc(CurGroup(g).key, CurGroup(g).items, p, model))
  /\ gcreated' = [gcreated EXCEPT ![g] = gcreated[g] + 1]
  /\ gidx' = [gidx EXCEPT ![g] = gidx[g] + 1]
  /\ gpc' = [gpc EXCEPT ![g] = "loop"]
  /\ UNCHANGED <<useOpenai, client, groups, gerr>>

\* lines 253-277 when nothing raises: the document is built from the payload,
\* a dict, and added to generated_articles_v3; created += 1; the loop goes on
StoreArticle(g, p, model) ==
  /\ p.type = "dict"
  /\ generated' =
       AddDoc(generated, ArticleDoc(CurGroup(g).key, CurGroup(g).items, p, model))
  /\ gcreated' = [gcreated EXCEPT ![g] = gcreated[g] + 1]
  /\ gidx' = [gidx EXCEPT ![g] = gidx[g] + 1]
  /\ gpc' = [gpc EXCEPT ![g] = "loop"]
  /\ UNCHANGED <<useOpenai, client, groups, gerr>>

\* lines 253-277 for the payload p: payload.get raises AttributeError when p
\* is not a dict (a list, a number), the add can raise, and either exception
\* leaves run_once; otherwise the article is stored
BuildAndAdd(g, p, model) ==
  IF p.type # "dict"
    THEN GenEnds(g, "crashed", "AttributeError") /\ UNCHANGED generated
    ELSE \E stored \in BOOLEAN :
           IF stored THEN StoreArticle(g, p, model)
           ELSE GenEnds(g, "crashed", "StoreError") /\ UNCHANGED generated

\* USE_OPENAI is off: the payload is the template, model_used stays template
GenTemplate(g) ==
  /\ gpc[g] = "call"
  /\ gscript[g] = "cluster_and_generate_v7"
  /\ ~useOpenai[g]
  /\ BuildAndAdd(g, make_payload_from_sources(CurGroup(g).items), "template")
  /\ UNCHANGED <<logs, gateLog, ptext, pres, clock>>
  /\ UNCHANGED <<imgVars, ingVars, pureVars, generatedV1, gscript>>

\* the backend answers and safe_parse_json returns a value: model_used is the
\* backend's model, and the payload is that value, or the template when the
\* value is None
GenCallParsed(g) ==
  /\ gpc[g] = "call"
  /\ gscript[g] = "cluster_and_generate_v7"
  /\ useOpenai[g]
  /\ client[g]
  /\ \E parsed \in ParsedAnswers :
       BuildAndAdd(g, IF parsed = JNull
                        THEN make_payload_from_sources(CurGroup(g).items)
                        ELSE parsed,
                   "gpt-4o-mini")
  /\ UNCHANGED <<logs, gateLog, ptext, pres, clock>>
  /\ UNCHANGED <<imgVars, ingVars, pureVars, generatedV1, gscript>>

\* (mutant) the article of a failed call is labelled with the backend's model
GenCallFailsLabelsBackend(g) ==
  /\ gpc[g] = "call"
  /\ useOpenai[g]
  /\ BackendCanRaise \/ \E content \in Responses : ~ParseOf[content].ok
  /\ \E logged \in BOOLEAN :
       IF logged
         THEN /\ logs' = logs \cup {"openai_error"}
              /\ BuildAndAdd(g, make_payload_from_sources(CurGroup(g).items),
                             "gpt-4o-mini")
         ELSE /\ GenEnds(g, "crashed", "StoreError")
              /\ UNCHANGED <<generated, logs>>
  /\ UNCHANGED <<gateLog, ptext, pres, clock>>
  /\ UNCHANGED <<imgVars, ingVars, pureVars, generatedV1, gscript>>

\* the backend call raises (no client, error, timeout) or safe_parse_json
\* raises: the handler logs openai_error and takes the template; when the log
\* write raises, the exception leaves run_once
GenCallFails(g) ==
  /\ gpc[g] = "call"
  /\ gscript[g] = "cluster_and_generate_v7"
  /\ useOpenai[g]
  /\ BackendCanRaise \/ \E content \in Responses : ~ParseOf[content].ok
  /\ \E logged \in BOOLEAN :
       IF logged
         THEN /\ logs' = logs \cup {"openai_error"}
              /\ BuildAndAdd(g, make_payload_from_sources(CurGroup(g).items), "template")
         ELSE /\ GenEnds(g, "crashed", "StoreError")
              /\ UNCHANGED <<generated, logs>>
  /\ UNCHANGED <<gateLog, ptext, pres, clock>>
  /\ UNCHANGED <<imgVars, ingVars, pureVars, generatedV1, gscript>>

\* the loop is over: log_event(generate_done) and the final print; when the log
\* write raises, the exception leaves run_once
GenDone(g) ==
  /\ gpc[g] = "loop"
  /\ gscript[g] = "cluster_and_generate_v7"
  /\ gidx[g] > Len(groups[g])
  /\ \E logged \in BOOLEAN :
       IF logged
         THEN /\ logs' = logs \cup {"generate_done"}
              /\ GenEnds(g, "exited", "none")
         ELSE /\ GenEnds(g, "crashed", "StoreError")
              /\ UNCHANGED logs
  /\ UNCHANGED <<generated, gateLog, ptext, pres, clock>>
  /\ UNCHANGED <<imgVars, ingVars, pureVars, generatedV1, gscript>>

GenStep(g) ==
  \/ GenStart(g)
  \/ GenGateSkip(g)
  \/ GenGatePass(g)
  \/ GenTemplate(g)
  \/ GenCallParsed(g)
  \/ GenCallFails(g)
  \/ GenDone(g)

(***************************************************************************)
(* scripts/cluster_and_generate.py, the first of the scripts that cluster  *)
(* and generate.  It writes to generated_articles.                         *)
(***************************************************************************)
\* load_recent_raw_groups of cluster_and_generate.py: no source is left out
load_recent_raw_groups_v1(stream) ==
  LET keys == KeysInOrder(stream, 1, <<>>)
  IN  [i \in DOMAIN keys |->
         [key |-> keys[i],
          items |-> LET members == SelectSeq(stream, LAMBDA d : ClusterKeyOf(d) = keys[i])
                    IN  [k \in DOMAIN members |-> ItemOf(members[k])]]]

\* already_generated of cluster_and_generate.py, when the query answers
HasArticleV1(key) == \E d \in DOMAIN generatedV1 : d.cluster_key = key

\* the document cluster_and_generate.py adds for a cluster (token_usage,
\* latency_ms, published_window and created_at are left out)
ArticleDocV1(key, items, p, model) ==
  [cluster_key |-> key,
   title |-> Get(p, "title", JStr(<<>>)),
   summary |-> Get(p, "summary", JStr(<<>>)),
   bullets |-> Get(p, "bullets", JList(<<>>)),
   facts |-> Get(p, "facts", JList(<<>>)),
   actions |-> Get(p, "actions",
                   JDict([stock |-> JList(<<>>), futures |-> JList(<<>>),
                          biz |-> JList(<<>>)])),
   evidence_urls |-> [k \in DOMAIN items |-> items[k].url],
   raw_refs |-> [k \in DOMAIN items |-> items[k].id],
   model |-> model]

\* the values json.loads returns for the answers of the backend
LoadedAnswers == {json_loads(content).val : content \in {c \in Responses : json_loads(c).ok}}

\* the module is imported (USE_OPENAI = bool(OPENAI_API_KEY), and the client is
\* created with it) and run_once starts: init_db, load_recent_raw_groups
LegacyStart(g) ==
  /\ gpc[g] = "idle"
  /\ \E loaded \in BOOLEAN :
       IF loaded
         THEN /\ \E has_key \in BOOLEAN :
                   \E stream \in StreamOrders(Recent(raw, clock)) :
                     /\ useOpenai' = [useOpenai EXCEPT ![g] = has_key]
                     /\ client' = [client EXCEPT ![g] = has_key]
                     /\ groups' = [groups EXCEPT ![g] = load_recent_raw_groups_v1(stream)]
              /\ gpc' = [gpc EXCEPT ![g] = "loop"]
              /\ gidx' = [gidx EXCEPT ![g] = 1]
              /\ gcreated' = [gcreated EXCEPT ![g] = 0]
              /\ UNCHANGED gerr
         ELSE GenEnds(g, "crashed", "StoreError")
  /\ gscript' = [gscript EXCEPT ![g] = "cluster_and_generate"]
  /\ UNCHANGED <<generated, generatedV1, logs, gateLog, ptext, pres, clock>>
  /\ UNCHANGED <<imgVars, ingVars, pureVars>>

\* (mutant) groups of fewer than three items are passed over
LegacySizeSkipBelowThree(g) ==
  /\ gpc[g] = "loop"
  /\ gscript[g] = "cluster_and_generate"
  /\ gidx[g] <= Len(groups[g])
  /\ Len(CurGroup(g).items) < 3
  /\ gidx' = [gidx EXCEPT ![g] = gidx[g] + 1]
  /\ UNCHANGED <<generated, generatedV1, logs, gpc, useOpenai, client, groups, gcreated,
                 gerr, gateLog, ptext, pres, clock>>
  /\ UNCHANGED <<imgVars, ingVars, pureVars, gscript>>

\* if len(items) < 2: continue
LegacySizeSkip(g) ==
  /\ gpc[g] = "loop"
  /\ gscript[g] = "cluster_and_generate"
  /\ gidx[g] <= Len(groups[g])
  /\ Len(CurGroup(g).items) < 2
  /\ gidx' = [gidx EXCEPT ![g] = gidx[g] + 1]
  /\ UNCHANGED <<generated, generatedV1, logs, gpc, useOpenai, client, groups, gcreated,
                 gerr, gateLog, ptext, pres, clock>>
  /\ UNCHANGED <<imgVars, ingVars, pureVars, gscript>>

\* if already_generated(db, cluster_key): continue.  The query is not guarded:
\* when it raises, the exception leaves run_once
LegacyGate(g) ==
  /\ gpc[g] = "loop"
  /\ gscript[g] = "cluster_and_generate"
  /\ gidx[g] <= Len(groups[g])
  /\ Len(CurGroup(g).items) >= 2
  /\ \E raises \in BOOLEAN :
       IF raises THEN GenEnds(g, "crashed", "StoreError")
       ELSE /\ IF HasArticleV1(CurGroup(g).key)
                 THEN gidx' = [gidx EXCEPT ![g] = gidx[g] + 1] /\ UNCHANGED gpc
                 ELSE gpc' = [gpc EXCEPT ![g] = "call"] /\ UNCHANGED gidx
            /\ UNCHANGED <<useOpenai, client, groups, gcreated, gerr>>
  /\ UNCHANGED <<generated, generatedV1, logs, gateLog, ptext, pres, clock>>
  /\ UNCHANGED <<imgVars, ingVars, pureVars, gscript>>

\* lines 107-123 for the payload p: payload.get raises AttributeError when p is
\* not a dict, the add can raise, and either exception leaves run_once
LegacyBuildAndAdd(g, p) ==
  IF p.type # "dict"
    THEN GenEnds(g, "crashed", "AttributeError") /\ UNCHANGED generatedV1
    ELSE \E stored \in BOOLEAN :
           IF stored
             THEN /\ generatedV1' =
                       AddDoc(generatedV1,
                              ArticleDocV1(CurGroup(g).key, CurGroup(g).items, p,
                                           IF useOpenai[g] THEN "gpt-4o-mini"
                                           ELSE "template"))
                  /\ gcreated' = [gcreated EXCEPT ![g] = gcreated[g] + 1]
                  /\ gidx' = [gidx EXCEPT ![g] = gidx[g] + 1]
                  /\ gpc' = [gpc EXCEPT ![g] = "loop"]
                  /\ UNCHANGED <<useOpenai, client, groups, gerr>>
             ELSE GenEnds(g, "crashed", "StoreError") /\ UNCHANGED generatedV1

\* lines 85-123: the payload is the template; with USE_OPENAI the backend is
\* called and its answer, loaded with json.loads, replaces the payload; when
\* the call or json.loads raises, openai_error is logged and the template stays
LegacyCall(g) ==
  /\ gpc[g] = "call"
  /\ gscript[g] = "cluster_and_generate"
  /\ LET template == make_payload_from_sources_v1(CurGroup(g).items).val
     IN  \/ /\ ~useOpenai[g]
            /\ LegacyBuildAndAdd(g, template)
            /\ UNCHANGED logs
         \/ /\ useOpenai[g]
            /\ \E loaded \in LoadedAnswers : LegacyBuildAndAdd(g, loaded)
            /\ UNCHANGED logs
         \/ /\ useOpenai[g]
            /\ \E logged \in BOOLEAN :
                 IF logged
                   THEN /\ logs' = logs \cup {"openai_error"}
                        /\ LegacyBuildAndAdd(g, template)
                   ELSE /\ GenEnds(g, "crashed", "StoreError")
                        /\ UNCHANGED <<generatedV1, logs>>
  /\ UNCHANGED <<generated, gateLog, ptext, pres, clock>>
  /\ UNCHANGED <<imgVars, ingVars, pureVars, gscript>>

\* log_event(db, "generate_done", ...) and the final print
LegacyDone(g) ==
  /\ gpc[g] = "loop"
  /\ gscript[g] = "cluster_and_generate"
  /\ gidx[g] > Len(groups[g])
  /\ \E logged \in BOOLEAN :
       IF logged
         THEN /\ logs' = logs \cup {"generate_done"}
              /\ GenEnds(g, "exited", "none")
         ELSE /\ GenEnds(g, "crashed", "StoreError")
              /\ UNCHANGED logs
  /\ UNCHANGED <<generated, generatedV1, gateLog, ptext, pres, clock>>
  /\ UNCHANGED <<imgVars, ingVars, pureVars, gscript>>

LegacyStep(g) ==
  \/ LegacyStart(g)
  \/ LegacySizeSkip(g)
  \/ LegacyGate(g)
  \/ LegacyCall(g)
  \/ LegacyDone(g)

\* the store after an ingest run has stored the items of a batch
Stored(batch) == {RawDocAt(batch[k], k) : k \in DOMAIN batch}

\* the stores the generation runs start from: one item for each url of the
\* corpus
GenStores ==
  {Stored(<<x, y, NytItem>>) : x \in {it \in RawFeed : it.url = <<"u", "7">>},
                              y \in {it \in RawFeed : it.url = <<"d", "7">>}}

\* the ingest runs are over and have filled raw_articles
IngLoaded ==
  /\ raw \in GenStores
  /\ rawClock = 4
  /\ ipc = [i \in Ingesters |-> "exited"]
  /\ itotal = [i \in Ingesters |-> 0]
  /\ ipos = [i \in Ingesters |-> 0]
  /\ icur = [i \in Ingesters |-> NoItem]
  /\ saved = [i \in Ingesters |-> 0]
  /\ skipped = [i \in Ingesters |-> 0]

Init ==
  /\ ImgInit /\ IngInit /\ GenInit /\ PureInit
  /\ clock = 111600 /\ ptext = <<>> /\ pres = NotParsed

\* fingerprints as simhash writes them, SimhashBits \div 4 hex digits: the
\* digits 1, 2 and 5 vary, the others are 0
Fingerprints ==
  {[j \in 1..(SimhashBits \div 4) |->
      IF j = 1 THEN d1 ELSE IF j = 2 THEN d2 ELSE IF j = 5 THEN d5 ELSE "0"] :
     d1 \in {"0", "8"}, d2 \in {"0", "4", "8"}, d5 \in {"0", "1", "f"}}

\* the values load_recent_raw_groups' parameter prefix_bits can be given
PrefixWidths == {4, 6, 8, 12, 16}

PrefixCalls ==
  {[fn |-> "sim_prefix", a |-> fa, b |-> fb, prefix_bits |-> n] :
     fa \in Fingerprints, fb \in Fingerprints, n \in PrefixWidths}

\* k = sim_prefix(it.get("simhash", ""), prefix_bits=prefix_bits), for two items
ClusterKeys ==
  /\ call.fn = "sim_prefix"
  /\ ret.st = "not called"
  /\ ret' = Returned(<<sim_prefix(call.a, call.prefix_bits),
                       sim_prefix(call.b, call.prefix_bits)>>)
  /\ UNCHANGED <<call, imgVars, ingVars, genVars>>

\* the state in which the cluster keys of two items are about to be taken
PrefixStartState ==
  /\ ImgInit /\ IngInit /\ GenInit
  /\ clock = 111600 /\ ptext = <<>> /\ pres = NotParsed
  /\ call \in PrefixCalls /\ ret = NotCalled

(***************************************************************************)
(* published_window of run_once (cluster_and_generate_v7.py, lines 188-196 *)
(* and 266).  Epoch values are counted in units of 1000 seconds, so that   *)
(* 10 ** 12 seconds is a number the checker can hold; min and max do not   *)
(* depend on the unit.                                                     *)
(***************************************************************************)
\* ts_min before the loop: 10 ** 12 seconds
TsMinStart == 1000000000

\* the largest value to_epoch can give: the last second of the year 9999,
\* 253402300799
MaxEpoch == 253402300

\* an item whose published_at is not there
Missing == [has |-> FALSE, at |-> 0]

\* an item whose published_at is n
At(n) == [has |-> TRUE, at |-> n]

\* ts = int(it.get("published_at", 0) or 0)
TsOf(v) == IF v.has THEN v.at ELSE 0

Min2(a, b) == IF a <= b THEN a ELSE b

Max2(a, b) == IF a >= b THEN a ELSE b

RECURSIVE WindowFrom(_, _, _, _)
\* the loop of lines 190-196 from item k on, with ts_min = lo and ts_max = hi
WindowFrom(stamps, k, lo, hi) ==
  IF k > Len(stamps) THEN [start |-> lo, end |-> hi]
  ELSE WindowFrom(stamps, k + 1, Min2(lo, TsOf(stamps[k])), Max2(hi, TsOf(stamps[k])))

\* (mutant) ts_min starts from 10 ** 9 seconds
published_window_low_start(stamps) == WindowFrom(stamps, 1, 1000000, 0)

\* "published_window": {"start": ts_min, "end": ts_max}, for the published_at
\* values of the items of a group
published_window(stamps) == WindowFrom(stamps, 1, TsMinStart, 0)

\* published_at values: none, the epoch, a second of 1970, one of 2023, the
\* last one to_epoch can give, and values no date gives: 10 ** 12, a stamp in
\* milliseconds, a time before 1970
Stamps ==
  {Missing} \cup {At(n) : n \in {0, 1, 1700000, MaxEpoch, TsMinStart, 1700000000, -1}}

WindowCalls ==
  {[fn |-> "published_window", stamps |-> st] :
     st \in UNION {[1..n -> Stamps] : n \in 0..MaxItems}}

\* lines 188-196 and 266 for one group
Window ==
  /\ call.fn = "published_window"
  /\ ret.st = "not called"
  /\ ret' = Returned(published_window(call.stamps))
  /\ UNCHANGED <<call, imgVars, ingVars, genVars>>

\* the state in which the window of a group is about to be computed
WindowStartState ==
  /\ ImgInit /\ IngInit /\ GenInit
  /\ clock = 111600 /\ ptext = <<>> /\ pres = NotParsed
  /\ call \in WindowCalls /\ ret = NotCalled

\* the characters of the texts that are fingerprinted
HashChars == {"a", "c", "A", " ", "TAB", "HANGUL_GA", "CYR_DE"}

\* texts of three tokens: two of them equal, all of them different, and the
\* first of them in another order and another letter case
VoteTexts ==
  {<<"a", " ", "c", " ", "A">>, <<"a", " ", "c", "TAB", "a", "c">>,
   <<"c", "CYR_DE", "a", "a", " ", "c">>, <<"A", " ", "a", " ", "c">>}

HashTexts == UNION {[1..n -> HashChars] : n \in 0..MaxHashLen} \cup VoteTexts

\* a text without its whitespace characters
WithoutSpace(t) == SelectSeq(t, LAMBDA c : ~SpaceChar(c))

\* how often each token of a text occurs in it, the tokens in lower case
TokenBag(text) ==
  LET toks == Tokens(text)
      low  == [k \in DOMAIN toks |-> Lower(toks[k])]
  IN  [t \in {low[k] : k \in DOMAIN low} |-> Cardinality({k \in DOMAIN low : low[k] = t})]

\* a text of ASCII letters and blanks
Plain(text) == \A k \in DOMAIN text : text[k] \in {"a", "c", "A", " "}

\* simhash called on two of the given texts that differ at most by
\* whitespace, or, for texts of letters and blanks, at most by the order and
\* the letter case of their tokens
HashCalls(texts) ==
  LET bare  == [t \in texts |-> WithoutSpace(t)]
      plain == {t \in texts : Plain(t)}
      bag   == [t \in plain |-> TokenBag(t)]
  IN  UNION {{[fn |-> "simhash", a |-> ta, b |-> tb] :
                tb \in {t \in texts : bare[t] = bare[ta]}
                       \cup (IF ta \in plain THEN {t \in plain : bag[t] = bag[ta]} ELSE {})} :
             ta \in texts}

\* s = simhash(...), for two texts
Fingerprint ==
  /\ call.fn = "simhash"
  /\ ret.st = "not called"
  /\ ret' = Returned(<<simhash(call.a), simhash(call.b)>>)
  /\ UNCHANGED <<call, imgVars, ingVars, genVars>>

\* the state in which two texts are about to be fingerprinted
HashStartState ==
  /\ ImgInit /\ IngInit /\ GenInit
  /\ clock = 111600 /\ ptext = <<>> /\ pres = NotParsed
  /\ call \in HashCalls(HashTexts) /\ ret = NotCalled

\* the contents raw_articles can have: at most one document for a url
RawStores ==
  {S \in SUBSET {RawDocAt(it, 1) : it \in Corpus} :
     \A d1, d2 \in S : d1.id = d2.id => d1 = d2}

GroupCalls ==
  {[fn |-> "load_recent_raw_groups", docs |-> S, now |-> t] :
     S \in RawStores, t \in Times}

\* groups = load_recent_raw_groups(db), the store streaming the documents of
\* the query in one of the orders it can
BuildGroups ==
  /\ call.fn = "load_recent_raw_groups"
  /\ ret.st = "not called"
  /\ \E stream \in StreamOrders(Recent(call.docs, call.now)) :
       ret' = Returned(load_recent_raw_groups(stream))
  /\ UNCHANGED <<call, imgVars, ingVars, genVars>>

\* the state in which load_recent_raw_groups is about to be called
GroupStartState ==
  /\ ImgInit /\ IngInit /\ GenInit
  /\ clock = 111600 /\ ptext = <<>> /\ pres = NotParsed
  /\ call \in GroupCalls /\ ret = NotCalled

\* the lists of (id, item) a caller can hand to make_payload_from_sources
ItemLists ==
  UNION {[1..n -> {ItemOf(RawDocAt(it, 1)) : it \in Corpus}] : n \in 0..MaxItems}

PayloadCalls ==
  {[fn |-> "make_payload_from_sources", gscript |-> sc, items |-> its] :
     sc \in Scripts, its \in ItemLists}

\* make_payload_from_sources is called
Synthesize ==
  /\ call.fn = "make_payload_from_sources"
  /\ ret.st = "not called"
  /\ ret' = MakePayload(call.gscript, call.items)
  /\ UNCHANGED <<call, imgVars, ingVars, genVars>>

\* the state in which make_payload_from_sources is about to be called
PayloadStartState ==
  /\ ImgInit /\ IngInit /\ GenInit
  /\ clock = 111600 /\ ptext = <<>> /\ pres = NotParsed
  /\ call \in PayloadCalls /\ ret = NotCalled

\* the state from which the generation runs are started
GenStartState ==
  /\ ImgInit /\ IngLoaded /\ GenInit /\ PureInit
  /\ clock \in Times /\ ptext = <<>> /\ pres = NotParsed

\* the state in which a text is about to be normalized
ParseStartState ==
  /\ ImgInit /\ IngInit /\ GenInit /\ PureInit
  /\ clock = 111600 /\ ptext \in Texts /\ pres = NotParsed


(***************************************************************************)
(* run(): one invocation of the image batch.                               *)
(***************************************************************************)
\* (mutant) run() has no handler: an exception from the call ends the run
ReturnNoHandler(w, res) ==
  /\ outcome' = [outcome EXCEPT ![w] = res]
  /\ created' = [created EXCEPT ![w] = IF res = "record" THEN created[w] + 1 ELSE created[w]]
  /\ IF res = "raised"
       THEN pc' = [pc EXCEPT ![w] = "exited"] /\ UNCHANGED idx
       ELSE pc' = [pc EXCEPT ![w] = "loop"] /\ idx' = [idx EXCEPT ![w] = idx[w] + 1]

\* how ensure_image_for_article ends for run(): a record is counted, None is
\* printed as [SKIP], an exception as [ERR]; then the next document is taken
Return(w, res) ==
  /\ outcome' = [outcome EXCEPT ![w] = res]
  /\ created' = [created EXCEPT ![w] = IF res = "record" THEN created[w] + 1 ELSE created[w]]
  /\ idx' = [idx EXCEPT ![w] = idx[w] + 1]
  /\ pc' = [pc EXCEPT ![w] = "loop"]

\* (mutant) the exception of the transaction is not caught: it reaches run()
LockReturnsFalseRaises(w, how, kind) ==
  /\ lockRet' = [lockRet EXCEPT ![w] = how]
  /\ lockLog' = [lockLog EXCEPT ![CurDoc(w)].refused = @ \/ kind = "refused"]
  /\ txRead' = [txRead EXCEPT ![w] = NoRead]
  /\ attempts' = [attempts EXCEPT ![w] = 0]
  /\ UNCHANGED <<articles, audit, genCalls, url>>
  /\ Return(w, IF how \in {"exhausted", "aborted", "error"} THEN "raised" ELSE "skipped")

\* (mutant) the pending flag is written although the call returns False
LockReturnsFalseKeepsWrite(w, how, kind) ==
  /\ lockRet' = [lockRet EXCEPT ![w] = how]
  /\ lockLog' = [lockLog EXCEPT ![CurDoc(w)].refused = @ \/ kind = "refused"]
  /\ txRead' = [txRead EXCEPT ![w] = NoRead]
  /\ attempts' = [attempts EXCEPT ![w] = 0]
  /\ articles' = [articles EXCEPT ![CurDoc(w)] = LockWrite(@)]
  /\ UNCHANGED <<audit, genCalls, url>>
  /\ Return(w, "skipped")

\* article_lock_or_skip ends with False: the transaction's locals are gone and
\* ensure_image_for_article returns None
LockReturnsFalse(w, how, kind) ==
  /\ lockRet' = [lockRet EXCEPT ![w] = how]
  /\ lockLog' = [lockLog EXCEPT ![CurDoc(w)].refused = @ \/ kind = "refused"]
  /\ txRead' = [txRead EXCEPT ![w] = NoRead]
  /\ attempts' = [attempts EXCEPT ![w] = 0]
  /\ UNCHANGED <<articles, audit, genCalls, url>>
  /\ Return(w, "skipped")

\* db, _ = init_firebase(); docs = q.get(); created = 0
StartRun(w) ==
  /\ pc[w] = "idle"
  /\ snapHero' = [snapHero EXCEPT ![w] = [a \in Articles |-> articles[a].hero # None]]
  /\ idx' = [idx EXCEPT ![w] = 1]
  /\ created' = [created EXCEPT ![w] = 0]
  /\ pc' = [pc EXCEPT ![w] = "loop"]
  /\ UNCHANGED <<articles, audit, txRead, attempts, url, outcome, lockRet, genCalls, lockLog, everFailed>>
  /\ UNCHANGED <<ingVars, genVars, pureVars>>

\* the for loop is exhausted: print("Done. images_created=..."); the process
\* ends and its locals are gone
RunDone(w) ==
  /\ pc[w] = "loop"
  /\ idx[w] > Len(Docs)
  /\ pc' = [pc EXCEPT ![w] = "exited"]
  /\ snapHero' = [snapHero EXCEPT ![w] = [a \in Articles |-> FALSE]]
  /\ idx' = [idx EXCEPT ![w] = 1]
  /\ txRead' = [txRead EXCEPT ![w] = NoRead]
  /\ attempts' = [attempts EXCEPT ![w] = 0]
  /\ url' = [url EXCEPT ![w] = None]
  /\ created' = [created EXCEPT ![w] = 0]
  /\ outcome' = [outcome EXCEPT ![w] = "none"]
  /\ lockRet' = [lockRet EXCEPT ![w] = "none"]
  /\ UNCHANGED <<articles, audit, genCalls, lockLog, everFailed>>
  /\ UNCHANGED <<ingVars, genVars, pureVars>>

\* ensure_image_for_article: the snapshot of run() already has images_map.hero
FastSkip(w) ==
  /\ pc[w] = "loop"
  /\ idx[w] <= Len(Docs)
  /\ snapHero[w][CurDoc(w)]
  /\ Return(w, "skipped")
  /\ lockRet' = [lockRet EXCEPT ![w] = "none"]
  /\ UNCHANGED <<articles, audit, snapHero, txRead, attempts, url, genCalls, lockLog, everFailed>>
  /\ UNCHANGED <<ingVars, genVars, pureVars>>

\* article_lock_or_skip is entered: transaction = db.transaction(), and _lock
\* reads the document for the first time
LockBegin(w) ==
  /\ pc[w] = "loop"
  /\ idx[w] <= Len(Docs)
  /\ ~snapHero[w][CurDoc(w)]
  /\ pc' = [pc EXCEPT ![w] = "lock_commit"]
  /\ attempts' = [attempts EXCEPT ![w] = 1]
  /\ txRead' = [txRead EXCEPT ![w] = ReadDoc(CurDoc(w))]
  /\ url' = [url EXCEPT ![w] = None]
  /\ lockRet' = [lockRet EXCEPT ![w] = "running"]
  /\ outcome' = [outcome EXCEPT ![w] = "running"]
  /\ UNCHANGED <<articles, audit, snapHero, idx, created, genCalls, lockLog, everFailed>>
  /\ UNCHANGED <<ingVars, genVars, pureVars>>

\* _lock runs again after an aborted commit: snap = ref.get(transaction=tx)
LockRead(w) ==
  /\ pc[w] = "lock_read"
  /\ attempts' = [attempts EXCEPT ![w] = attempts[w] + 1]
  /\ txRead' = [txRead EXCEPT ![w] = ReadDoc(CurDoc(w))]
  /\ pc' = [pc EXCEPT ![w] = "lock_commit"]
  /\ UNCHANGED <<articles, audit, snapHero, idx, url, created, outcome,
                 lockRet, genCalls, lockLog, everFailed>>
  /\ UNCHANGED <<ingVars, genVars, pureVars>>

\* (mutant) a lock that waits: while the document is pending the call reads again
LockSkipWaits(w) ==
  /\ pc[w] = "lock_commit"
  /\ LockBlocked(txRead[w])
  /\ IF txRead[w].status = "pending"
       THEN /\ pc' = [pc EXCEPT ![w] = "lock_read"]
            /\ UNCHANGED <<articles, audit, genCalls, url, outcome, created, idx,
                           lockRet, lockLog, txRead, attempts>>
       ELSE LockReturnsFalse(w, "skipped", "refused")
  /\ UNCHANGED <<snapHero, everFailed>>
  /\ UNCHANGED <<ingVars, genVars, pureVars>>

\* _lock returns False (nothing was written, the commit is empty)
LockSkip(w) ==
  /\ pc[w] = "lock_commit"
  /\ LockBlocked(txRead[w])
  /\ LockReturnsFalse(w, "skipped", "refused")
  /\ UNCHANGED <<snapHero, everFailed>>
  /\ UNCHANGED <<ingVars, genVars, pureVars>>

\* _lock wrote pending and the commit went through: article_lock_or_skip is True
LockAcquire(w) ==
  /\ pc[w] = "lock_commit"
  /\ ~LockBlocked(txRead[w])
  /\ CommitValid(w, CurDoc(w))
  /\ articles' = [articles EXCEPT ![CurDoc(w)] = LockWrite(@)]
  /\ lockRet' = [lockRet EXCEPT ![w] = "acquired"]
  /\ lockLog' = [lockLog EXCEPT ![CurDoc(w)].acquired = @ + 1]
  /\ txRead' = [txRead EXCEPT ![w] = NoRead]
  /\ attempts' = [attempts EXCEPT ![w] = 0]
  /\ pc' = [pc EXCEPT ![w] = "gen"]
  /\ UNCHANGED <<audit, snapHero, idx, url, created, outcome, genCalls, everFailed>>
  /\ UNCHANGED <<ingVars, genVars, pureVars>>

\* the commit is refused because of a concurrent write: the wrapper runs _lock
\* again, or gives up after MaxAttempts attempts and raises, which
\* article_lock_or_skip turns into False
LockAbort(w) ==
  /\ pc[w] = "lock_commit"
  /\ ~LockBlocked(txRead[w])
  /\ ~CommitValid(w, CurDoc(w))
  /\ IF attempts[w] < MaxAttempts
       THEN /\ pc' = [pc EXCEPT ![w] = "lock_read"]
            /\ UNCHANGED <<articles, audit, genCalls, url, outcome, created, idx,
                           lockRet, lockLog, txRead, attempts>>
       ELSE LockReturnsFalse(w, "exhausted", "refused")
  /\ UNCHANGED <<snapHero, everFailed>>
  /\ UNCHANGED <<ingVars, genVars, pureVars>>

\* the store raises inside article_lock_or_skip: Aborted (line 186) or any
\* other exception (line 189); both handlers return False
LockRaise(w) ==
  /\ pc[w] \in {"lock_read", "lock_commit"}
  /\ \E how \in {"aborted", "error"} : LockReturnsFalse(w, how, "fault")
  /\ UNCHANGED <<snapHero, everFailed>>
  /\ UNCHANGED <<ingVars, genVars, pureVars>>

\* img_bytes = qwen_generate_image(prompt), which returns the bytes or raises;
\* then url = upload_image_bytes_to_firebase(...), which returns a fresh url or
\* raises.  Neither touches the document store.
Generate(w) ==
  /\ pc[w] = "gen"
  /\ genCalls' = [genCalls EXCEPT ![CurDoc(w)] = @ + 1]
  /\ \E res \in {"ok", "gen_raises", "upload_raises"} :
       IF res = "ok"
         THEN /\ url' = [url EXCEPT ![w] = NewUrl(w)]
              /\ pc' = [pc EXCEPT ![w] = "set_done"]
         ELSE /\ pc' = [pc EXCEPT ![w] = "except"]
              /\ UNCHANGED url
  /\ UNCHANGED <<articles, audit, snapHero, idx, txRead, attempts, created,
                 outcome, lockRet, lockLog, everFailed>>
  /\ UNCHANGED <<ingVars, genVars, pureVars>>

\* doc_ref.set({images_map: {hero}, image_status: done, ...}, merge=True)
SetDone(w) ==
  /\ pc[w] = "set_done"
  /\ \E ok \in BOOLEAN :
       IF ok
         THEN /\ articles' = [articles EXCEPT ![CurDoc(w)] = DoneWrite(@, url[w])]
              /\ pc' = [pc EXCEPT ![w] = "set_audit"]
         ELSE /\ pc' = [pc EXCEPT ![w] = "except"]
              /\ UNCHANGED articles
  /\ UNCHANGED <<audit, snapHero, idx, txRead, attempts, url, created, outcome,
                 lockRet, genCalls, lockLog, everFailed>>
  /\ UNCHANGED <<ingVars, genVars, pureVars>>

\* db.collection("generated_images").document(f"{doc_id}_hero").set(hero_record);
\* return hero_record, which run() counts
SetAudit(w) ==
  /\ pc[w] = "set_audit"
  /\ \E ok \in BOOLEAN :
       IF ok
         THEN /\ audit' = [audit EXCEPT ![CurDoc(w)] = url[w]]
              /\ Return(w, "record")
         ELSE /\ pc' = [pc EXCEPT ![w] = "except"]
              /\ UNCHANGED <<audit, created, outcome, idx>>
  /\ UNCHANGED <<articles, snapHero, txRead, attempts, url, lockRet, genCalls, lockLog, everFailed>>
  /\ UNCHANGED <<ingVars, genVars, pureVars>>

\* except Exception: doc_ref.set({image_status: failed, image_error, ...}); raise.
\* The write itself may raise; either way an exception reaches run(), which
\* prints [ERR] and goes on
SetFailed(w) ==
  /\ pc[w] = "except"
  /\ \E ok \in BOOLEAN :
       IF ok
         THEN /\ articles' = [articles EXCEPT ![CurDoc(w)] = FailedWrite(@)]
              /\ everFailed' = [everFailed EXCEPT ![CurDoc(w)] = TRUE]
         ELSE UNCHANGED <<articles, everFailed>>
  /\ Return(w, "raised")
  /\ UNCHANGED <<audit, snapHero, txRead, attempts, url, lockRet,
                 genCalls, lockLog>>
  /\ UNCHANGED <<ingVars, genVars, pureVars>>

ImgStep(w) ==
  \/ StartRun(w)
  \/ RunDone(w)
  \/ FastSkip(w)
  \/ LockBegin(w)
  \/ LockRead(w)
  \/ LockSkip(w)
  \/ LockAcquire(w)
  \/ LockAbort(w)
  \/ LockRaise(w)
  \/ Generate(w)
  \/ SetDone(w)
  \/ SetAudit(w)
  \/ SetFailed(w)

\* the image batch: the invocations of generate_images_qwen.py
Next == \E w \in Workers : ImgStep(w)

Spec == Init /\ [][Next]_vars

\* the ingest batch: the invocations of fetch_news.py
IngNext == \E i \in Ingesters : IngStep(i)

IngestSpec == Init /\ [][IngNext]_vars

\* the generation batch: the invocations of cluster_and_generate_v7.py
GenNext == \E g \in Gens : GenStep(g)

GenSpec == GenStartState /\ [][GenNext]_vars

\* safe_parse_json applied to a text
PayloadNext == Synthesize

PayloadSpec == PayloadStartState /\ [][PayloadNext]_vars

PrefixNext == ClusterKeys

PrefixSpec == PrefixStartState /\ [][PrefixNext]_vars

GroupNext == BuildGroups

HashNext == Fingerprint

WindowNext == Window

WindowSpec == WindowStartState /\ [][WindowNext]_vars

HashSpec == HashStartState /\ [][HashNext]_vars

GroupSpec == GroupStartState /\ [][GroupNext]_vars

\* the invocations of cluster_and_generate.py
LegacyNext == \E g \in Gens : LegacyStep(g)

\* the invocations of both scripts against one store: a run goes on with the
\* steps of the gscript that was started
ClusterNext == \E g \in Gens : GenStep(g) \/ LegacyStep(g)

ClusterSpec == GenStartState /\ [][ClusterNext]_vars

LegacySpec == GenStartState /\ [][LegacyNext]_vars

ParseNext == Normalize

ParseSpec == ParseStartState /\ [][ParseNext]_vars

\* an invocation that is running keeps running: the process is scheduled and
\* every store or backend call it makes returns or raises
FairSpec == Spec /\ \A w \in Workers : WF_vars(ImgStep(w))

(***************************************************************************)
(* Properties of the image path.                                           *)
(***************************************************************************)
LockPcs == {"lock_read", "lock_commit"}

NotAcquired == {"skipped", "exhausted", "aborted", "error"}

\* worker w's article_lock_or_skip call returns in this step
LockEnds(w) == pc[w] \in LockPcs /\ pc'[w] \notin LockPcs

\* the rule of section 4.7 on the fields of a document
RuleBlocked(hero, status) == hero \/ status \in {"pending", "done"}

\* C1 (lock exclusivity): of the acquire calls made on an article that started
\* with no status and no hero, as long as no failure was recorded on it, at
\* most one has returned acquired, and as soon as one call has been refused
\* (the store answered it, or aborted it for a conflicting write) exactly one
\* has returned acquired, whatever the number of callers and the interleaving
\* of their transactions.
LockExclusivity ==
  \A a \in Articles :
    ~everFailed[a] =>
      /\ lockLog[a].acquired <= 1
      /\ lockLog[a].refused => lockLog[a].acquired = 1

\* two calls on one article overlapped: one holds the lock and is generating,
\* the other has returned not-acquired
LockExclusivityWitness ==
  \E a \in Articles : \E w1, w2 \in Workers :
    /\ w1 # w2
    /\ ~everFailed[a]
    /\ pc[w1] = "gen" /\ CurDoc(w1) = a
    /\ lockRet[w2] = "skipped" /\ pc[w2] = "loop" /\ Docs[idx[w2] - 1] = a
    /\ lockLog[a].acquired = 1 /\ lockLog[a].refused

\* C2 (lock terminality): an acquire that completes on an article whose
\* image_status is failed returns not-acquired.
LockTerminality ==
  [][\A w \in Workers :
       (LockEnds(w) /\ articles[CurDoc(w)].image_status = "failed")
         => pc'[w] # "gen"]_vars

\* C3 (at most one generation per article): over all runs, the number of
\* acquire calls on one article that returned acquired never exceeds 1.
AtMostOneAcquire == \A a \in Articles : lockLog[a].acquired <= 1

\* C4 (status state machine): no step changes image_status away from done or
\* failed, and done or failed is only ever set on a pending document.
StatusMachine ==
  [][\A a \in Articles :
       LET old == articles[a].image_status
           new == articles'[a].image_status
       IN  /\ old \in {"done", "failed"} => new = old
           /\ (new \in {"done", "failed"} /\ new # old) => old = "pending"]_vars

\* C5 (acquire decision rule): a call returns acquired only on a document that
\* has no hero and whose status is neither pending nor done, and the same step
\* sets pending together with a fresh lock timestamp and changes nothing else;
\* a call whose transaction ran to its end returns not-acquired only if the
\* document it read has a hero or is pending or done; a call that returns
\* not-acquired writes nothing.
AcquireRule ==
  [][\A w \in Workers : LockEnds(w) =>
       LET a == CurDoc(w)
           d == articles[a]
       IN  /\ pc'[w] = "gen" =>
                /\ lockRet'[w] = "acquired"
                /\ ~RuleBlocked(d.hero # None, d.image_status)
                /\ articles'[a].image_status = "pending"
                /\ articles'[a].image_lock_at # None
                /\ articles'[a].image_lock_at # d.image_lock_at
                /\ articles'[a].hero = d.hero
                /\ articles'[a].image_error = d.image_error
                /\ \A b \in Articles \ {a} : articles'[b] = articles[b]
           /\ pc'[w] # "gen" =>
                /\ lockRet'[w] \in NotAcquired
                /\ articles' = articles
           /\ lockRet'[w] = "skipped" =>
                RuleBlocked(txRead[w].hero, txRead[w].status)
           /\ RuleBlocked(d.hero # None, d.image_status) => pc'[w] # "gen"]_vars

\* both branches of the rule were taken: a document is pending under one
\* worker's lock and another worker's call on it was refused
AcquireRuleWitness ==
  \E w1, w2 \in Workers :
    /\ lockRet[w1] = "acquired" /\ pc[w1] = "set_done"
    /\ articles[CurDoc(w1)].image_status = "pending"
    /\ articles[CurDoc(w1)].image_lock_at # None
    /\ lockRet[w2] = "skipped" /\ idx[w2] = idx[w1] + 1

\* the lock holder's call returns or raises in this step
HolderEnds(w) == pc[w] \in {"set_audit", "except"} /\ pc'[w] = "loop"

AbortEnds(w) == LockEnds(w) /\ lockRet'[w] \in {"exhausted", "aborted"}

\* C7 as stated (transaction abort): when the lock transaction is aborted and
\* the retries are exhausted, the call ends as a failure and the article is
\* recorded as failed.
AbortRecordedAsFailed ==
  [][\A w \in Workers : AbortEnds(w) =>
       /\ outcome'[w] = "raised"
       /\ articles'[CurDoc(w)].image_status = "failed"]_vars

\* C7 as amended: when the lock transaction is aborted and the retries are
\* exhausted, acquire returns not-acquired: the call is an ordinary skip that
\* raises nothing and leaves the article, its status included, untouched.
AbortIsSkip ==
  [][\A w \in Workers : AbortEnds(w) =>
       /\ outcome'[w] = "skipped"
       /\ pc'[w] = "loop"
       /\ articles' = articles
       /\ everFailed' = everFailed]_vars

\* an aborted lock transaction was skipped while the article has no status
AbortIsSkipWitness ==
  \E w \in Workers :
    /\ lockRet[w] = "aborted" /\ outcome[w] = "skipped"
    /\ articles[Docs[idx[w] - 1]].image_status = "absent"

\* C8 (lock contention is a silent skip): when acquire returns not-acquired,
\* ensure_image_for_article returns no record and raises nothing, no call to
\* the image backend or to the upload is made, and the article documents and
\* the audit collection are unchanged.
SilentSkip ==
  [][\A w \in Workers : (LockEnds(w) /\ pc'[w] # "gen") =>
       /\ outcome'[w] = "skipped"
       /\ created'[w] = created[w]
       /\ pc'[w] = "loop"
       /\ genCalls' = genCalls
       /\ url' = url
       /\ articles' = articles
       /\ audit' = audit]_vars

\* a call was refused on a document that another worker holds
SilentSkipWitness ==
  \E w1, w2 \in Workers :
    /\ w1 # w2
    /\ lockRet[w2] = "skipped" /\ outcome[w2] = "skipped" /\ pc[w2] = "loop"
    /\ pc[w1] \in {"gen", "set_done"}
    /\ Docs[idx[w2] - 1] = CurDoc(w1)
    /\ articles[CurDoc(w1)].image_status = "pending"

\* the steps a call inside article_lock_or_skip takes when the store answers
LockProceeds(w) == LockRead(w) \/ LockSkip(w) \/ LockAcquire(w) \/ LockAbort(w)

\* C9 (acquire never blocks): a call that is inside article_lock_or_skip can
\* always take its next step, whatever the state of the article and whoever
\* holds it; it runs _lock at most MaxAttempts times, so it ends after a
\* bounded number of its own steps; and it has ended with acquired or with
\* not-acquired, a not-acquired call being a skip and never an exception.
AcquireNeverBlocks ==
  \A w \in Workers :
    /\ pc[w] \in LockPcs =>
         /\ lockRet[w] = "running"
         /\ attempts[w] >= 1 /\ attempts[w] <= MaxAttempts
         /\ pc[w] = "lock_read" => attempts[w] < MaxAttempts
         /\ ENABLED LockProceeds(w)
    /\ pc[w] \notin LockPcs =>
         /\ lockRet[w] \in {"none", "acquired"} \cup NotAcquired
         /\ lockRet[w] \in NotAcquired => outcome[w] = "skipped" /\ pc[w] = "loop"
         /\ lockRet[w] = "acquired" =>
              \/ pc[w] \in {"gen", "set_done", "set_audit", "except"}
              \/ pc[w] = "loop" /\ outcome[w] \in {"record", "raised"}

\* the same as a progress property, under FairSpec: a call that is inside
\* article_lock_or_skip leaves it
AcquireTerminates ==
  \A w \in Workers : (pc[w] \in LockPcs) ~> (pc[w] \notin LockPcs)

\* a call returned while the document it asked for is still held by another
AcquireNeverBlocksWitness ==
  \E w1, w2 \in Workers :
    /\ w1 # w2
    /\ pc[w1] = "except" /\ articles[CurDoc(w1)].image_status = "pending"
    /\ lockRet[w2] \in NotAcquired /\ pc[w2] = "loop"
    /\ Docs[idx[w2] - 1] = CurDoc(w1)

(***************************************************************************)
(* Properties of the ingest path.                                          *)
(***************************************************************************)
StoredWithUrl(docs, u) == {d \in docs : d.url = u}

\* ingest run i decides on an item in this step (the existence check)
IngChecks(i) ==
  /\ ipc[i] = "next" /\ ipos[i] < itotal[i]
  /\ ipos'[i] = ipos[i] + 1 \/ ipc'[i] = "write"

\* C10 (exact-dedup idempotence): an item whose url is stored when it is
\* checked causes no store write, is counted as skipped and leaves the store
\* unchanged, and any other item goes on to be written; after an item was
\* skipped or written exactly one document holds its url, and at no time does
\* the store hold two documents for one url.
ExactDedup ==
  /\ [](\A it \in RawFeed : Cardinality(StoredWithUrl(raw, it.url)) <= 1)
  /\ [][\A i \in Ingesters :
          /\ IngChecks(i) =>
               IF StoredWithUrl(raw, icur'[i].url) # {}
                 THEN /\ raw' = raw
                      /\ rawClock' = rawClock
                      /\ skipped'[i] = skipped[i] + 1
                      /\ saved'[i] = saved[i]
                      /\ ipc'[i] = "next"
                      /\ Cardinality(StoredWithUrl(raw', icur'[i].url)) = 1
                 ELSE ipc'[i] = "write" /\ raw' = raw /\ skipped'[i] = skipped[i]
          /\ (ipc[i] = "write" /\ ipc'[i] = "next") =>
               /\ saved'[i] = saved[i] + 1
               /\ Cardinality(StoredWithUrl(raw', icur[i].url)) = 1]_vars

\* one batch held the same url twice, under two titles: the first item was
\* stored, the second was skipped, and one document holds the url
ExactDedupWitness ==
  \E i \in Ingesters :
    /\ itotal[i] = 2 /\ ipos[i] = 2 /\ saved[i] = 1 /\ skipped[i] = 1
    /\ \A j \in Ingesters \ {i} : ipc[j] = "idle"
    /\ \E d \in raw : d.url = icur[i].url /\ d.title # icur[i].title
    /\ Cardinality(StoredWithUrl(raw, icur[i].url)) = 1

\* C11 (ingestion race is closed): whatever the number of ingest runs and the
\* interleaving of their existence checks and writes, every stored record
\* sits under the content address of its own url, the key the existence
\* check reads, and the collection holds at most one record for a url.
IngestRaceClosed ==
  /\ \A d \in raw : d.id = sha256(d.url) /\ d.url_hash = d.id
  /\ \A d1, d2 \in raw : d1.url = d2.url => d1 = d2

\* two overlapping runs both found the url missing and both wrote it: one
\* record holds the url
IngestRaceClosedWitness ==
  \E i, j \in Ingesters :
    /\ i # j
    /\ saved[i] = 1 /\ saved[j] = 1 /\ ipos[i] = 1 /\ ipos[j] = 1
    /\ icur[i].url = icur[j].url /\ icur[i].url # <<>>
    /\ Cardinality(StoredWithUrl(raw, icur[i].url)) = 1

\* C12 (a RawItem is immutable once stored): no ingest step of any run changes
\* a stored field of an existing record or deletes the record.
RawItemImmutable ==
  [][\A d \in raw : d \in raw']_vars

\* the number of articles a collection holds for a cluster key
RECURSIVE Copies(_, _)
Copies(coll, docs) ==
  IF docs = {} THEN 0
  ELSE LET d == CHOOSE x \in docs : TRUE IN coll[d] + Copies(coll, docs \ {d})

ArticlesIn(coll, key) == Copies(coll, {d \in DOMAIN coll : d.cluster_key = key})

ArticlesFor(key) == ArticlesIn(generated, key)

StoredKeys == {d.cluster_key : d \in DOMAIN generated}

\* C13: as long as no run has started while another was between its start and
\* its end, generated_articles_v3 holds at most one article for each cluster
\* key, whatever the store queries and the backend calls answered.
AtMostOnceNonOverlapping ==
  ~gateLog.overlap => \A key \in StoredKeys : ArticlesFor(key) <= 1

\* C14: the insert is not guarded by the gate's answer.  A run that passed the
\* gate for a cluster and reaches line 275 adds one article for the key even
\* when another run has stored one since the gate was read; and two articles
\* for one key only come from runs that overlapped or from a gate query that
\* raised.
GenerationRacy ==
  [][/\ \A g \in Gens :
          (gpc[g] = "call" /\ gpc'[g] = "loop")
            => ArticlesIn(generated', CurGroup(g).key) = ArticlesFor(CurGroup(g).key) + 1
     /\ (\E d \in DOMAIN generated' : ArticlesIn(generated', d.cluster_key) >= 2)
          => (gateLog'.overlap \/ gateLog'.fault)]_vars

\* two overlapping runs have both found no article for a key and both have
\* inserted one
GenerationRacyWitness ==
  /\ gateLog.overlap /\ ~gateLog.fault
  /\ \E key \in StoredKeys : ArticlesFor(key) = 2

\* C15: the gate lets a cluster through (should_generate is true, the run goes
\* on to the backend call) only when the collection holds no article with the
\* cluster's key, it holds the cluster back only when the collection holds
\* one, and holding a cluster back writes nothing to the store.
GateDecision ==
  [][\A g \in Gens :
       (gpc[g] = "loop" /\ gidx[g] <= Len(groups[g]))
         => /\ gpc'[g] = "call" => ~HasArticle(CurGroup(g).key)
            /\ (gpc'[g] = "loop" /\ gidx'[g] = gidx[g] + 1)
                 => /\ HasArticle(CurGroup(g).key)
                    /\ generated' = generated
                    /\ logs' = logs]_vars

SchemaValid(d) ==
  /\ d.title.type = "string"
  /\ d.summary.type = "string"
  /\ d.bullets.type = "list" /\ Len(d.bullets.elems) = 3
  /\ d.facts.type = "list"
  /\ d.talks.type = "dict"

Strategies(content) ==
  <<json_loads(content),
    json_loads(StripFences(content)),
    IF BraceSpan(content) = <<>> THEN [ok |-> FALSE, val |-> JNull]
    ELSE json_loads(BraceSpan(content))>>

\* C19: once safe_parse_json has been called on a text, its result is the
\* value of the first of the three strategies (verbatim, fences stripped,
\* brace span) that parses, and it raises exactly when none of the three
\* parses.
StrategyOrder ==
  pres # NotParsed =>
    LET st == Strategies(ptext)
        succeed == {k \in 1..3 : st[k].ok}
    IN  IF succeed = {} THEN ~pres.ok /\ pres.err # "none"
        ELSE LET first == CHOOSE k \in succeed : \A m \in succeed : k <= m
             IN  pres = Parsed(st[first].val)

\* a text that is not JSON as it stands and whose fence-stripped reading and
\* brace span both parse, to different values: the result is the
\* fence-stripped one
StrategyOrderWitness ==
  /\ pres # NotParsed
  /\ LET st == Strategies(ptext)
     IN  /\ ~st[1].ok /\ st[2].ok /\ st[3].ok
         /\ st[2].val # st[3].val
         /\ pres = Parsed(st[2].val)

StoreFailureSkips ==
  [][\A g \in Gens :
       gpc[g] \in GenActive => ~(gpc'[g] = "crashed" /\ gerr'[g] = "StoreError")]_vars

\* C22: in the image batch an exception while one article is handled does not
\* stop the run: the call that raised is over, nothing is counted for it, and
\* the run takes the next document; a run only ends once every document it
\* selected has been taken, and it ends by printing its count.
BatchSurvivesErrors ==
  [][\A w \in Workers :
       /\ (pc[w] = "except" /\ pc'[w] # "except")
            => /\ outcome'[w] = "raised"
               /\ pc'[w] = "loop"
               /\ idx'[w] = idx[w] + 1
               /\ created'[w] = created[w]
       /\ (pc[w] # "exited" /\ pc'[w] = "exited")
            => pc[w] = "loop" /\ idx[w] > Len(Docs)
       /\ (pc[w] \notin {"idle", "exited"} /\ pc'[w] # "exited")
            => idx'[w] \in {idx[w], idx[w] + 1}]_vars

\* the first document of a run ended in an exception, and the run went on to
\* create the image of the second one
BatchSurvivesErrorsWitness ==
  \E w \in Workers :
    /\ pc[w] = "loop" /\ idx[w] = Len(Docs) + 1
    /\ outcome[w] = "record" /\ created[w] = 1
    /\ everFailed[Docs[1]] /\ articles[Docs[1]].image_status = "failed"
    /\ articles[Docs[2]].image_status = "done"
    /\ \A v \in Workers \ {w} : pc[v] = "idle"

\* C23: make_payload_from_sources returns, for every list of items and the
\* empty one too, a record with three bullets, talks for the four reader
\* types and a non-empty list of facts, the first of which cites the title and
\* the url of the first item when there is one.
FallbackTotal ==
  (call.fn = "make_payload_from_sources" /\ ret.st # "not called") =>
    /\ ret.st = "returned"
    /\ LET p == ret.val
           bullets == Get(p, "bullets", JNull)
           talks == Get(p, "talks", JNull)
           facts == Get(p, "facts", JNull)
       IN  /\ bullets.type = "list" /\ Len(bullets.elems) = 3
           /\ talks.type = "dict" /\ ReaderTypes \subseteq DOMAIN talks.items
           /\ facts.type = "list" /\ Len(facts.elems) >= 1
           /\ Len(call.items) >= 1 =>
                /\ Get(facts.elems[1], "text", JNull) = JStr(call.items[1].title)
                /\ Get(facts.elems[1], "evidence_url", JNull) = JStr(call.items[1].url)

\* the article run_once stores for the current cluster of g from the template
TemplateArticle(g) ==
  ArticleDoc(CurGroup(g).key, CurGroup(g).items,
             make_payload_from_sources(CurGroup(g).items), "template")

\* C24: without an API key the module has no backend client, whatever the
\* USE_OPENAI flag; and a run without a client is not ended by that: for
\* every cluster that passes the gate it stores the template's record with
\* model = template, unless a store write raises.
ConfigAbsenceDegrades ==
  /\ \A flag, init_ok \in BOOLEAN : ~ModuleInit(FALSE, flag, init_ok).client
  /\ [][\A g \in Gens :
          (gpc[g] = "call" /\ gpc'[g] # "call" /\ ~client[g])
            => \/ /\ gpc'[g] = "loop"
                  /\ generated' = AddDoc(generated, TemplateArticle(g))
               \/ /\ gpc'[g] = "crashed" /\ gerr'[g] = "StoreError"
                  /\ generated' = generated]_vars

\* a run with the flag on and no client has logged the failed call and stored
\* the template's record for its first cluster
ConfigAbsenceDegradesWitness ==
  \E g \in Gens :
    /\ gpc[g] = "loop" /\ useOpenai[g] /\ ~client[g]
    /\ gidx[g] = 2 /\ gcreated[g] = 1
    /\ "openai_error" \in logs
    /\ \A h \in Gens \ {g} : gpc[h] = "idle"
    /\ \A d \in DOMAIN generated : d.model = "template"

\* the four bits of a hex digit, the most significant first
DigitBits(d) ==
  LET v == (CHOOSE k \in 1..16 : HexDigits[k] = d) - 1
  IN  <<(v \div 8) % 2, (v \div 4) % 2, (v \div 2) % 2, v % 2>>

\* the first n bits of a fingerprint
PrefixBitsOf(fp, n) ==
  [k \in 1..n |-> DigitBits(fp[((k - 1) \div 4) + 1])[((k - 1) % 4) + 1]]

\* C25: for every prefix width and two fingerprints, the two cluster keys are
\* equal when the fingerprints agree on the bits of the prefix, and differ
\* when they differ in at least one bit of the prefix.
ClusteringCorrect ==
  (call.fn = "sim_prefix" /\ ret.st = "returned") =>
    LET same == PrefixBitsOf(call.a, call.prefix_bits) = PrefixBitsOf(call.b, call.prefix_bits)
    IN  same <=> (ret.val[1] = ret.val[2])

\* the url's host is a listed domain or a subdomain of one
OnDenylist(u) ==
  \E k \in DOMAIN u :
    /\ u[k] \in ExcludeDomains
    /\ k >= 2 /\ u[1] = "https://"
    /\ \A m \in 2..k : u[m] # "/"
    /\ k = Len(u) \/ u[k + 1] = "/"
    /\ k = 2 \/ u[k - 1] = "."

\* where the document with this id sits in the groups
PlacesOf(grps, id) ==
  {<<i, k>> \in (DOMAIN grps) \X (1..Cardinality(call.docs)) :
     k <= Len(grps[i].items) /\ grps[i].items[k].id = id}

\* C26: the groups load_recent_raw_groups returns are a partition of the
\* stored documents published at or after now - window whose host is not on
\* the denylist: each of these sits in exactly one group, the one keyed by the
\* prefix of its own fingerprint; no other document sits in a group; no group
\* is empty and no key comes twice.
GroupsPartition ==
  (call.fn = "load_recent_raw_groups" /\ ret.st = "returned") =>
    LET grps == ret.val
        selected == {d \in call.docs : /\ d.published_at >= call.now - WindowSec
                                       /\ ~OnDenylist(d.url)}
    IN  /\ \A d \in selected :
             /\ Cardinality(PlacesOf(grps, d.id)) = 1
             /\ \A pl \in PlacesOf(grps, d.id) :
                  grps[pl[1]].key = SubSeq(d.simhash, 1, PrefixBits \div 4)
        /\ \A d \in call.docs \ selected : PlacesOf(grps, d.id) = {}
        /\ \A i \in DOMAIN grps : Len(grps[i].items) >= 1
        /\ \A i, j \in DOMAIN grps : i # j => grps[i].key # grps[j].key

\* a store with a document published exactly at now - window, a document
\* older than that and a document of a listed source: two documents share a
\* group, and the old and the listed ones are in none
GroupsPartitionWitness ==
  /\ call.fn = "load_recent_raw_groups" /\ ret.st = "returned"
  /\ \E d \in call.docs : d.published_at = call.now - WindowSec /\ PlacesOf(ret.val, d.id) # {}
  /\ \E d \in call.docs : d.published_at < call.now - WindowSec
  /\ \E d \in call.docs : OnDenylist(d.url) /\ d.published_at >= call.now - WindowSec
  /\ \E i \in DOMAIN ret.val : Len(ret.val[i].items) = 2


\* C27: a group with a single item is a valid cluster: when neither collection
\* holds an article for its key, a run that reaches it in its loop does not
\* pass over it (the run does not move on to the next group without having
\* taken the group to generation).
SingletonValid ==
  [][\A g \in Gens :
       (/\ gpc[g] = "loop"
        /\ gidx[g] <= Len(groups[g])
        /\ Len(CurGroup(g).items) = 1
        /\ ~HasArticle(CurGroup(g).key)
        /\ ~HasArticleV1(CurGroup(g).key))
       => ~(gpc'[g] = "loop" /\ gidx'[g] = gidx[g] + 1)]_vars


\* a step passes run g over its current group: the loop goes on with the next
\* group and nothing was taken to generation
PassedOver(g) == gpc'[g] = "loop" /\ gidx'[g] = gidx[g] + 1

\* C27 (amended): the minimum group size depends on the script.  A run of
\* cluster_and_generate_v7.py never passes over a group, of one item or more,
\* whose key has no article in generated_articles_v3.  A run of
\* cluster_and_generate.py passes over every group of fewer than two items,
\* storing nothing, and never passes over a group of two items or more whose
\* key has no article in generated_articles.
GroupSizePolicy ==
  [][\A g \in Gens :
       (gpc[g] = "loop" /\ gidx[g] <= Len(groups[g]))
       => /\ (gscript[g] = "cluster_and_generate_v7" /\ ~HasArticle(CurGroup(g).key))
               => ~PassedOver(g)
          /\ (/\ gscript[g] = "cluster_and_generate"
              /\ Len(CurGroup(g).items) >= 2
              /\ ~HasArticleV1(CurGroup(g).key))
               => ~PassedOver(g)
          /\ (/\ gscript[g] = "cluster_and_generate"
              /\ Len(CurGroup(g).items) < 2
              /\ <<gpc[g], gidx[g]>> # <<gpc'[g], gidx'[g]>>)
               => PassedOver(g) /\ generatedV1' = generatedV1]_vars

\* a run of cluster_and_generate_v7.py has taken a group of one item to
\* generation while a run of cluster_and_generate.py has passed over its first
\* group, of one item, and holds a later group
GroupSizePolicyWitness ==
  \E g, h \in Gens :
    /\ gscript[g] = "cluster_and_generate_v7"
    /\ gpc[g] = "call"
    /\ Len(CurGroup(g).items) = 1
    /\ gscript[h] = "cluster_and_generate"
    /\ gpc[h] = "loop"
    /\ gidx[h] = 2
    /\ Len(groups[h]) >= 2
    /\ Len(groups[h][1].items) = 1
    /\ ~HasArticleV1(groups[h][1].key)


\* C28: fingerprint stability: two texts that differ only by whitespace
\* (whitespace characters added, removed or changed) have the same fingerprint.
WhitespaceInsensitive ==
  (call.fn = "simhash" /\ ret.st = "returned") => ret.val[1] = ret.val[2]

\* C28 (amended): the fingerprint is a function of the text, and two texts that
\* normalize() maps to the same text (they differ only in the length or the
\* kind of their whitespace runs and in leading or trailing whitespace) have
\* the same fingerprint.
FingerprintStable ==
  (call.fn = "simhash" /\ ret.st = "returned" /\ normalize(call.a) = normalize(call.b))
  => ret.val[1] = ret.val[2]

\* two different texts with the same normalized text, of two tokens, have been
\* fingerprinted
FingerprintStableWitness ==
  /\ call.fn = "simhash"
  /\ ret.st = "returned"
  /\ call.a # call.b
  /\ normalize(call.a) = normalize(call.b)
  /\ Len(Tokens(Lower(call.a))) = 2


\* bit i (0 the least significant) of the number a hex fingerprint writes
BitOfHex(fp, i) == DigitBits(fp[Len(fp) - (i \div 4)])[4 - (i % 4)]

\* the tokens of toks whose hash has bit i set, and those whose hash has it clear
SetVotes(toks, i) == Cardinality({k \in DOMAIN toks : Md5Bit(toks[k], i) = 1})
ClearVotes(toks, i) == Cardinality({k \in DOMAIN toks : Md5Bit(toks[k], i) = 0})

\* C29: the fingerprint always has bits/4 hex digits; a text without tokens
\* gets the all-zero fingerprint; otherwise bit i of the fingerprint is set
\* exactly when the tokens whose hash has bit i set are at least as many as
\* those whose hash has it clear, so that a tie sets the bit.
BitVote ==
  (call.fn = "simhash" /\ ret.st = "returned")
  => LET toks == Tokens(Lower(call.a))
         fp == ret.val[1]
     IN  /\ Len(fp) = SimhashBits \div 4
         /\ \A j \in DOMAIN fp : \E k \in DOMAIN HexDigits : HexDigits[k] = fp[j]
         /\ toks = <<>> => \A j \in DOMAIN fp : fp[j] = "0"
         /\ toks # <<>> =>
              \A i \in 0..(SimhashBits - 1) :
                BitOfHex(fp, i) = 1 <=> SetVotes(toks, i) - ClearVotes(toks, i) >= 0

\* a text of two tokens has been fingerprinted, and on some bit the two hashes
\* disagree: the vote is a tie and the bit is set
BitVoteWitness ==
  /\ call.fn = "simhash"
  /\ ret.st = "returned"
  /\ Len(Tokens(Lower(call.a))) = 2
  /\ \E i \in 0..(SimhashBits - 1) :
       /\ SetVotes(Tokens(Lower(call.a)), i) = 1
       /\ ClearVotes(Tokens(Lower(call.a)), i) = 1
       /\ BitOfHex(ret.val[1], i) = 1


\* a text of three tokens has been fingerprinted, and on some bit one hash
\* outvotes the two others
BitVoteMajority ==
  /\ call.fn = "simhash"
  /\ ret.st = "returned"
  /\ Len(Tokens(Lower(call.a))) = 3
  /\ \E i \in 0..(SimhashBits - 1) :
       /\ SetVotes(Tokens(Lower(call.a)), i) = 1
       /\ BitOfHex(ret.val[1], i) = 0


\* str.isalpha() on one character: the letters, of any script
IsLetter(c) ==
  c \in {"a", "c", "d", "e", "f", "t", "u", "A", "F", "HANGUL_GA", "CYR_DE", "CYR_DE_UPPER"}

\* C30: tokenization knows the letters of every script: a text that holds a
\* letter, Latin or not, has at least one token and does not get the all-zero
\* fingerprint of a text without tokens.
UnicodeTokens ==
  (call.fn = "simhash" /\ ret.st = "returned" /\ \E k \in DOMAIN call.a : IsLetter(call.a[k]))
  => /\ Tokens(Lower(call.a)) # <<>>
     /\ \E j \in DOMAIN ret.val[1] : ret.val[1][j] # "0"


\* C31: the documents of generated_articles_v3 keep what run_once gave them.
\* No step of the image path (the lock's update, the done write, the failed
\* write) changes cluster_key, title, summary, bullets, facts, talks,
\* evidence_urls or raw_refs of a document or removes a document, and no step
\* of a generation run changes or removes a document that was added: a run only
\* adds documents.
ArticleFrame ==
  [][/\ \A a \in Articles : articles'[a].content = articles[a].content
     /\ \A d \in DOMAIN generated :
          d \in DOMAIN generated' /\ generated'[d] >= generated[d]]_vars

\* the image path has written all three of its writes: one document is done
\* with its hero, another is failed after it was locked, and both still hold
\* the fields run_once gave them
ArticleFrameWitness ==
  \E a, b \in Articles :
    /\ articles[a].image_status = "done" /\ articles[a].hero # None
    /\ articles[b].image_status = "failed" /\ articles[b].image_lock_at # None
    /\ articles[a].content = ContentFields
    /\ articles[b].content = ContentFields


\* worker w holds the lock of article a: its acquire succeeded and its
\* ensure_image_for_article call has not ended (it is generating, uploading,
\* or writing done, the audit copy or failed)
InProgress(w, a) ==
  /\ pc[w] \in {"gen", "set_done", "set_audit", "except"}
  /\ CurDoc(w) = a

\* C32: in every reachable state, for each article at most one worker is
\* between its successful acquire and the end of its call, hence at most one
\* is between the acquire and its own write of done or failed.
InProgressExclusive ==
  \A a \in Articles : \A w1, w2 \in Workers :
    (InProgress(w1, a) /\ InProgress(w2, a)) => w1 = w2

\* one worker is generating for an article while another worker, which read
\* the document before the lock was written, is about to commit its own lock
InProgressExclusiveWitness ==
  \E a \in Articles : \E w1, w2 \in Workers :
    /\ w1 # w2
    /\ InProgress(w1, a) /\ pc[w1] = "gen"
    /\ pc[w2] = "lock_commit" /\ CurDoc(w2) = a
    /\ ~LockBlocked(txRead[w2])


\* C33: every held lock is released: when the call of a worker that acquired
\* the lock ends, by returning or by raising, the article's image_status is
\* done or failed and not pending, also when store writes of the call raise.
HeldLockReleased ==
  [][\A w \in Workers :
       HolderEnds(w) => articles'[CurDoc(w)].image_status \in {"done", "failed"}]_vars


\* C34: in every reachable state an article whose image_status is done has
\* images_map.hero, and an article that has images_map.hero has image_status
\* done.
HeroIffDone ==
  \A a \in Articles :
    articles[a].image_status = "done" <=> articles[a].hero # None


\* C35: in every reachable state, if generated_images holds the document
\* {article_id}_hero then the article has images_map.hero with the same url;
\* and when the call of a worker that held the lock of an article ends with
\* the article's image_status done, the audit document of the article exists.
AuditConsistent ==
  /\ [](\A a \in Articles : audit[a] # None => articles[a].hero = audit[a])
  /\ [][\A w \in Workers :
          (HolderEnds(w) /\ articles'[CurDoc(w)].image_status = "done")
            => audit'[CurDoc(w)] # None]_vars


\* the total of the saved counters of a set of ingest runs
RECURSIVE TotalSaved(_)
TotalSaved(runs) ==
  IF runs = {} THEN 0
  ELSE LET i == CHOOSE x \in runs : TRUE IN saved[i] + TotalSaved(runs \ {i})

\* C37: every completed save_raw call returns saved + skipped equal to the
\* number of items it was given, and the total of saved over all ingest runs,
\* concurrent ones included, is the number of documents of raw_articles.
IngestCountsExact ==
  /\ \A i \in Ingesters : ipc[i] = "exited" => saved[i] + skipped[i] = itotal[i]
  /\ TotalSaved(Ingesters) = Cardinality(raw)


\* the documents a step adds to a collection
NewDocs(old, new) == {d \in DOMAIN new : d \notin DOMAIN old \/ new[d] > old[d]}

\* the document a script stores for a cluster when its content is the one of
\* the Fallback Synthesizer
TemplateDoc(s, key, items) ==
  IF s = "cluster_and_generate_v7"
    THEN ArticleDoc(key, items, make_payload_from_sources(items), "template")
    ELSE ArticleDocV1(key, items, make_payload_from_sources_v1(items).val, "template")

\* C36: the model field of a stored article tells which path produced its
\* content: whenever a run stores an article, model is template exactly when
\* title, summary, bullets, facts and talks (actions) are those of the Fallback
\* Synthesizer for the cluster, and is the backend's model name otherwise.
ModelTellsPath ==
  [][\A g \in Gens :
       (gpc[g] = "call" /\ gcreated'[g] = gcreated[g] + 1)
       => \A d \in NewDocs(generated, generated') \cup NewDocs(generatedV1, generatedV1') :
            /\ d.model \in {"template", "gpt-4o-mini"}
            /\ d.model = "template"
                 <=> [d EXCEPT !.model = "template"]
                       = TemplateDoc(gscript[g], CurGroup(g).key, CurGroup(g).items)]_vars


\* the values the items of a group can carry: what to_epoch gives for a date
\* the query of load_recent_raw_groups lets through, or nothing
Carried(v) == v.has => (v.at >= 0 /\ v.at <= MaxEpoch)

\* C38: for every non-empty group whose items carry such values, start is the
\* minimum and end the maximum of the members' published_at, a missing value
\* counted as 0, and start <= end.
WindowExact ==
  (/\ call.fn = "published_window"
   /\ ret.st = "returned"
   /\ call.stamps # <<>>
   /\ \A k \in DOMAIN call.stamps : Carried(call.stamps[k]))
  => LET ts == {TsOf(call.stamps[k]) : k \in DOMAIN call.stamps}
     IN  /\ ret.val.start \in ts /\ \A t \in ts : ret.val.start <= t
         /\ ret.val.end \in ts /\ \A t \in ts : ret.val.end >= t
         /\ ret.val.start <= ret.val.end

\* the window of a group of three items has been computed: one has no
\* published_at, one the last second to_epoch can give, one a second of 2023
WindowExactWitness ==
  /\ call.fn = "published_window"
  /\ ret.st = "returned"
  /\ Len(call.stamps) = 3
  /\ {call.stamps[k] : k \in DOMAIN call.stamps} = {Missing, At(MaxEpoch), At(1700000)}
  /\ ret.val = [start |-> 0, end |-> MaxEpoch]


\* C39: the fingerprint depends only on the multiset of lower-cased tokens.
\* Two texts whose tokens, put in lower case, are the same with the same
\* numbers of occurrences (one is the other with its tokens in another order
\* or in another letter case) have the same fingerprint.
TokenBagOnly ==
  (call.fn = "simhash" /\ ret.st = "returned" /\ TokenBag(call.a) = TokenBag(call.b))
  => ret.val[1] = ret.val[2]

\* two texts of three tokens, one of them twice, have been fingerprinted: the
\* tokens of the second are those of the first in another order and another
\* letter case, and the fingerprint is not the one of no tokens
TokenBagOnlyWitness ==
  /\ call.fn = "simhash"
  /\ ret.st = "returned"
  /\ Tokens(call.a) = <<<<"a">>, <<"c">>, <<"A">>>>
  /\ Tokens(call.b) = <<<<"A">>, <<"a">>, <<"c">>>>
  /\ ret.val[1] = ret.val[2]
  /\ \E j \in DOMAIN ret.val[1] : ret.val[1][j] # "0"

=============================================================================
